---------------------------- MODULE Spec2Model ----------------------------
(***************************************************************************)
(* A state-machine model of qiskit_dynamics:                               *)
(*   - Solver (solvers/solver_classes.py): solve, signal_assignment and    *)
(*     the compiled-path cache of _jit_shape;                              *)
(*   - GeneratorModel (models/generator_models.py);                        *)
(*   - LindbladModel (models/lindblad_models.py).                          *)
(* Python values are records tagged with a "kind"; None is NoneV.          *)
(***************************************************************************)
EXTENDS Integers, Sequences, FiniteSets, TLC

VARIABLES
    \* ---- Solver ----
    model_class,      \* class of Solver._model
    model_signals,    \* Solver.model.signals
    rwa_signal_map,   \* TRUE iff Solver._rwa_signal_map is set
    all_channels,     \* Solver._all_channels: NoneV or [kind |-> "list", len |-> n]
    jit_cache,        \* Solver._jit_cache
    pc,               \* "idle", or "solve_lmde" while the collaborator runs
    queue,            \* zip(t_span_list, y0_list, signals_list): the items not yet
                      \* finished (head: the current item)
    old_signals,      \* local of signal_assignment
    pre_signals,      \* model.signals when the running / last solve was called
    all_results,      \* number of results appended by the running / last solve
    can_jit_compile,  \* local of solve
    max_samples,      \* local of solve
    outcome,          \* how the last Solver call ended
    jit_last,         \* the last _jit_shape call: argument, cache before, result
    convert_results,  \* the convert_results argument of the last solve (True by default)
    jit_calls,        \* the required durations of the _jit_shape calls made so
                      \* far, in order (kept by JitCallsSpec alone)
    model_mode,       \* Solver.model.evaluation_mode
    schedule_converter, \* TRUE iff Solver._schedule_converter is set
    multiple_sims,    \* local of solve
    y0,               \* local of solve: the argument, then what validation gave
    y0_format,        \* locals y0_input, y0_cls, state_type_wrapper of solve
    calls,            \* the calls of the collaborator by the running solve, or by
                      \* the solve that was the last Solver call
    results,          \* the results appended by that solve
    return_value,     \* what that solve returned: "list", "single" or "none"
    \* ---- a GeneratorModel ----
    gm,               \* the instance's attributes, or Unconstructed
    gm_last,          \* the last call on it: method, arguments, how it ended
    \* ---- a LindbladModel ----
    lm,               \* the instance's attributes, or Unconstructed
    lm_last,          \* the last call on it: method, arguments, how it ended
    \* ---- a copy of the GeneratorModel ----
    dup,              \* the attributes of the copy, or Unconstructed
    aliased,          \* the attributes whose objects the model and the copy share
    copy_last,        \* the last call on the pair: method, target, how it ended
    \* ---- perturbation results and multisets ----
    pr,               \* a PerturbationResults instance, or Unconstructed
    pr_last,          \* the last subscript of it: label, how it ended, what it gave
    msf               \* a call of submultiset_filter: arguments, and result once made

solverVars == <<model_class, model_signals, rwa_signal_map, all_channels, jit_cache,
                pc, queue, old_signals, pre_signals, all_results, can_jit_compile,
                max_samples, outcome, jit_last, jit_calls, convert_results,
                model_mode, schedule_converter,
                multiple_sims, y0, y0_format, calls, results, return_value>>

generatorVars == <<gm, gm_last>>

lindbladVars == <<lm, lm_last>>

copyVars == <<dup, aliased, copy_last>>

perturbationVars == <<pr, pr_last, msf>>

vars == <<solverVars, generatorVars, lindbladVars, copyVars, perturbationVars>>

-----------------------------------------------------------------------------
(* Bounds of the model *)

MaxBatch == 2        \* longest list of simulations handed to solve
MaxDuration == 2     \* longest sample duration of a signal handed to solve
MaxRequired == 6     \* largest required_duration of the _jit_shape exploration
MaxCalls == 3        \* most _jit_shape calls of a recorded sequence of calls

MaxOperators == 2    \* most (Hamiltonian) operators of a model
MaxDissipators == 1  \* most dissipator operators of a LindbladModel
MaxTime == 1         \* latest evaluation time
NumOperators == 2    \* Hamiltonian operators of the model a Solver is built on
Dim == 2             \* dimension of the Hilbert space of that model

(* Program constants *)

\* _JIT_MIN_PADDING_FRAC = 0.2 and _JIT_DURATION_PADDING = 1.5, in tenths
JIT_MIN_PADDING_FRAC_TENTHS == 2
JIT_DURATION_PADDING_TENTHS == 15

-----------------------------------------------------------------------------
(* Python values *)

NoneV == [kind |-> "None"]

IsNone(v) == v.kind = "None"

Max(a, b) == IF a >= b THEN a ELSE b

\* a list of `len` signals; discrete: every element is a DiscreteSignal, of
\* duration dur; mapped: the image under the RWA signal map
SignalsOf(kind, id, len, discrete, dur) ==
    [kind |-> kind, id |-> id, len |-> len, discrete |-> discrete, dur |-> dur,
     mapped |-> FALSE]

\* the tuple (ham, dis) / the list [ham, dis]
Pair(ham, dis) == [kind |-> "tuple", ham |-> ham, dis |-> dis]

\* how a call ended: op is the method called
NoOutcome == [op |-> "none", status |-> "none", exc |-> "none"]
Returned(op) == [op |-> op, status |-> "returned", exc |-> "none"]
Raised(op, exc) == [op |-> op, status |-> "raised", exc |-> exc]

-----------------------------------------------------------------------------
(* Solver._jit_shape *)

\* Python round(): round half to even, of the rational num / den
PyRound(num, den) ==
    LET q == num \div den
        r == num % den
    IN  IF 2 * r < den THEN q
        ELSE IF 2 * r > den THEN q + 1
        ELSE IF q % 2 = 0 THEN q ELSE q + 1

\* variant: a duration is reused whenever it is not too long
JitReusable_LowerOnly(duration, required_duration) ==
    duration * JIT_MIN_PADDING_FRAC_TENTHS < required_duration * 10

\* duration * _JIT_MIN_PADDING_FRAC < required_duration <= duration
JitReusable(duration, required_duration) ==
    /\ duration * JIT_MIN_PADDING_FRAC_TENTHS < required_duration * 10
    /\ required_duration <= duration

\* the buckets of `cache` the loop over sorted(cache) can break at
JitCandidates(cache, required_duration) ==
    {d \in cache : JitReusable(d, required_duration)}

\* variant: the loop runs over the cache in descending order
JitDuration_Descending(cache, required_duration) ==
    LET c == JitCandidates(cache, required_duration)
    IN  IF c # {}
        THEN CHOOSE d \in c : \A e \in c : d >= e
        ELSE PyRound(JIT_DURATION_PADDING_TENTHS * required_duration, 10)

\* the duration _jit_shape settles on: the first candidate in sorted order,
\* else round(_JIT_DURATION_PADDING * required_duration)
JitDuration(cache, required_duration) ==
    LET c == JitCandidates(cache, required_duration)
    IN  IF c # {}
        THEN CHOOSE d \in c : \A e \in c : d <= e
        ELSE PyRound(JIT_DURATION_PADDING_TENTHS * required_duration, 10)

\* variant: the for-else branch rebinds the cache to the new duration alone
JitCacheAfter_Rebound(cache, required_duration) ==
    IF JitCandidates(cache, required_duration) # {}
    THEN cache
    ELSE {PyRound(JIT_DURATION_PADDING_TENTHS * required_duration, 10)}

\* the cache after the call: the for-else branch adds the new duration
JitCacheAfter(cache, required_duration) ==
    IF JitCandidates(cache, required_duration) # {}
    THEN cache
    ELSE cache \cup {JitDuration(cache, required_duration)}

\* return len(self._all_channels), duration: len(None) raises TypeError
JitShapeResult(channels, cache, required_duration) ==
    IF IsNone(channels)
    THEN [status |-> "raised", exc |-> "TypeError"]
    ELSE [status |-> "returned", exc |-> "none", nchan |-> channels.len,
          duration |-> JitDuration(cache, required_duration)]

JitRecord(channels, cache, required_duration) ==
    [called |-> TRUE, required |-> required_duration, before |-> cache,
     result |-> JitShapeResult(channels, cache, required_duration)]

-----------------------------------------------------------------------------
(* The signals setters of the models *)

SetOk(value) == [ok |-> TRUE, value |-> value, exc |-> "none"]
SetRaises(exc) == [ok |-> FALSE, value |-> NoneV, exc |-> exc]

\* variant: the length of the signals is not compared with the operators
GeneratorSignalsSetter_AnyLength(signals, num_operators) ==
    IF IsNone(signals) THEN SetOk(NoneV)
    ELSE LET converted == IF signals.kind = "list"
                          THEN [signals EXCEPT !.kind = "SignalList"]
                          ELSE signals
         IN  IF converted.kind # "SignalList" THEN SetRaises("QiskitError")
             ELSE SetOk(converted)

\* GeneratorModel.signals setter: the value stored for `signals`, or the error
GeneratorSignalsSetter(signals, num_operators) ==
    IF IsNone(signals) THEN SetOk(NoneV)
    ELSE LET converted == IF signals.kind = "list"
                          THEN [signals EXCEPT !.kind = "SignalList"]
                          ELSE signals
         IN  IF converted.kind # "SignalList" THEN SetRaises("QiskitError")
             ELSE IF converted.len # num_operators THEN SetRaises("QiskitError")
             ELSE SetOk(converted)

\* LindbladModel.signals setter: a bare two-target unpacking of new_signals
LindbladSignalsSetter(new_signals) ==
    IF new_signals.kind = "tuple" THEN SetOk(Pair(new_signals.ham, new_signals.dis))
    ELSE IF IsNone(new_signals) THEN SetRaises("TypeError")
    ELSE IF new_signals.kind \in {"list", "SignalList"} /\ new_signals.len # 2
         THEN SetRaises("ValueError")
    ELSE IF new_signals.kind \in {"list", "SignalList"}
         THEN SetOk(Pair([kind |-> "Signal", id |-> new_signals.id, index |-> 0],
                         [kind |-> "Signal", id |-> new_signals.id, index |-> 1]))
    ELSE SetRaises("TypeError")

\* self.model.signals = signals, for the class of the Solver's model
ModelSignalsSetter(class, signals) ==
    IF class = "LindbladModel"
    THEN LindbladSignalsSetter(signals)
    ELSE GeneratorSignalsSetter(signals, NumOperators)

-----------------------------------------------------------------------------
(* Initial states: the objects handed to solve as y0 and their conversion *)

\* a state object: its class, the shape of its data, the user's object it is
\* or was made from, and how it was made from it
StateOf(kind, shape, of, form) == [kind |-> kind, shape |-> shape, of |-> of, form |-> form]

\* the objects a user hands in, `of` telling them apart: the quantum objects
\* and the raw arrays "Vector" (dim), "Matrix" (dim x dim), "Vectorized" (dim^2)
UserState(name, of) ==
    StateOf(IF name \in {"Vector", "Matrix", "Vectorized"} THEN "Array" ELSE name,
            CASE name \in {"Statevector", "Vector"} -> <<Dim>>
              [] name \in {"DensityMatrix", "Operator", "Matrix"} -> <<Dim, Dim>>
              [] name = "Vectorized" -> <<Dim * Dim>>
              [] name = "SuperOp" -> <<Dim * Dim, Dim * Dim>>,
            of, "given")
ListOf(elems) == [kind |-> "list", elems |-> elems]

\* Array(list): the elements stacked when their shapes agree; for a ragged
\* list either an array of objects or a ValueError, `ragged` telling which
\* (it depends on the numpy in use)
ArrayOfList(obj, ragged) ==
    LET elems == obj.elems
        same == \A i \in 1..Len(elems) : elems[i].shape = elems[1].shape
    IN  IF same
        THEN SetOk(StateOf("Array", <<Len(elems)>> \o elems[1].shape, 0, "stacked"))
        ELSE IF ragged = "object"
        THEN SetOk(StateOf("Array", <<Len(elems)>>, 0, "objects"))
        ELSE SetRaises("ValueError")

\* initial_state_converter: [ok, exc, y0, y0_cls, wrapper]
initial_state_converter(obj, ragged) ==
    IF obj.kind \in {"Statevector", "DensityMatrix", "SuperOp", "Operator"}
    THEN [ok |-> TRUE, exc |-> "none",
          y0 |-> StateOf("Array", obj.shape, obj.of, IF obj.form = "given" THEN "data" ELSE obj.form),
          y0_cls |-> obj.kind,
          wrapper |-> [cls |-> obj.kind, dims |-> obj.of]]
    ELSE LET a == IF obj.kind = "list" THEN ArrayOfList(obj, ragged) ELSE SetOk(obj)
         IN  [ok |-> a.ok, exc |-> a.exc, y0 |-> a.value, y0_cls |-> "None",
              wrapper |-> [cls |-> "None", dims |-> 0]]

is_lindblad_model_vectorized(class, mode) ==
    class = "LindbladModel" /\ mode = "dense_vectorized"
is_lindblad_model_not_vectorized(class, mode) ==
    class = "LindbladModel" /\ mode # "dense_vectorized"

Invalid(exc) ==
    [ok |-> FALSE, exc |-> exc, y0 |-> NoneV, y0_input |-> NoneV, y0_cls |-> "None",
     wrapper |-> [cls |-> "None", dims |-> 0]]

\* validate_and_format_initial_state: [ok, exc, y0, y0_input, y0_cls, wrapper]
validate_and_format_initial_state(state, class, mode, ragged) ==
    LET obj == IF state.kind \in {"Statevector", "DensityMatrix"} /\ class = "LindbladModel"
               THEN StateOf("DensityMatrix", <<Dim, Dim>>, state.of,
                            IF state.kind = "Statevector" THEN "projector" ELSE state.form)
               ELSE state
        c == initial_state_converter(obj, ragged)
    IN  IF ~c.ok THEN Invalid(c.exc)
        ELSE IF c.y0_cls = "SuperOp" /\ is_lindblad_model_not_vectorized(class, mode)
        THEN Invalid("QiskitError")
        ELSE LET y == IF c.y0_cls \in {"DensityMatrix", "SuperOp"} /\ class = "HamiltonianModel"
                      THEN StateOf("Array", <<Dim, Dim>>, 0, "eye")
                      ELSE IF c.y0_cls = "DensityMatrix" /\ is_lindblad_model_vectorized(class, mode)
                      THEN StateOf("Array", <<c.y0.shape[1] * c.y0.shape[2]>>, c.y0.of, "flattened")
                      ELSE c.y0
                 bad == \/ class = "HamiltonianModel" /\ (y.shape[1] # Dim \/ Len(y.shape) > 2)
                        \/ /\ is_lindblad_model_vectorized(class, mode)
                           /\ (y.shape[1] # Dim * Dim \/ Len(y.shape) > 2)
                        \/ /\ is_lindblad_model_not_vectorized(class, mode)
                           /\ SubSeq(y.shape, Max(1, Len(y.shape) - 1), Len(y.shape))
                                 # <<Dim, Dim>>
             IN  IF bad THEN Invalid("QiskitError")
                 ELSE [ok |-> TRUE, exc |-> "none", y0 |-> y, y0_input |-> c.y0,
                       y0_cls |-> c.y0_cls, wrapper |-> c.wrapper]

\* format_final_states, and the wrapping of its result when convert_results:
\* how the states of a result were made from what solve_lmde gave
format_final_states(class, mode, y0_input, y0_cls) ==
    IF y0_cls = "DensityMatrix" /\ class = "HamiltonianModel"
    THEN [form |-> "conjugated", input |-> y0_input]
    ELSE IF y0_cls = "SuperOp" /\ class = "HamiltonianModel"
    THEN [form |-> "composed", input |-> y0_input]
    ELSE IF y0_cls = "DensityMatrix" /\ is_lindblad_model_vectorized(class, mode)
    THEN [form |-> "reshaped", input |-> y0_input]
    ELSE [form |-> "plain", input |-> NoneV]

-----------------------------------------------------------------------------
(* Solver.signal_assignment *)

\* the recorded signal-remapping function of the rotating-wave approximation
RwaSignalMap(signals) ==
    IF IsNone(signals) THEN signals
    ELSE IF signals.kind = "tuple"
         THEN Pair(IF IsNone(signals.ham) THEN NoneV ELSE [signals.ham EXCEPT !.mapped = TRUE],
                   IF IsNone(signals.dis) THEN NoneV ELSE [signals.dis EXCEPT !.mapped = TRUE])
    ELSE [signals EXCEPT !.mapped = TRUE]

\* variant: the recorded map is not applied
AssignedSignals_Unmapped(class, rwa, signals) ==
    IF class = "LindbladModel" /\ signals.kind \in {"list", "SignalList"}
    THEN Pair(signals, NoneV)
    ELSE signals

\* what signal_assignment hands to the model's setter
AssignedSignals(class, rwa, signals) ==
    LET wrapped == IF class = "LindbladModel" /\ signals.kind \in {"list", "SignalList"}
                   THEN Pair(signals, NoneV)
                   ELSE signals
    IN  IF rwa THEN RwaSignalMap(wrapped) ELSE wrapped

\* the code up to the yield: the setter's result
SignalAssignmentEnter(class, rwa, signals) ==
    ModelSignalsSetter(class, AssignedSignals(class, rwa, signals))

\* variant: nothing follows the yield
SignalAssignmentExit_Nothing(class, old) == SetOk(model_signals)

\* the code after the yield, run when the with-block ends normally
SignalAssignmentExit(class, old) == ModelSignalsSetter(class, old)

\* the with-block is left by an exception: the generator has no try/finally
\* around its yield, so the exception thrown in at the yield ends it and the
\* statement after the yield is not run
SignalAssignmentExitOnRaise(class, old, current) == current

-----------------------------------------------------------------------------
(* Solver.solve *)

\* all(isinstance(signal, DiscreteSignal) for signal in sigs)
AllDiscrete(sigs) == sigs.kind \in {"list", "SignalList"} /\ sigs.discrete

\* a pulse Schedule of `dur` samples
ScheduleOf(id, dur) == [kind |-> "Schedule", id |-> id, dur |-> dur]
ScheduleBlockOf(id, dur) == [kind |-> "ScheduleBlock", id |-> id, dur |-> dur]

\* self._schedule_converter.get_signals(sigs): one DiscreteSignal per channel
\* of the converter
get_signals(sigs, channels) == SignalsOf("list", sigs.id, channels.len, TRUE, sigs.dur)

\* the loop "turn any present schedules into signals and find longest
\* DiscreteSignal": the exception of the first item that raises one, "none"
\* when none does. A Schedule reaches self._schedule_converter.get_signals,
\* an AttributeError when the converter is None. A ScheduleBlock is handed to
\* block_to_schedule, whose result is bound to `signals` and not to `sigs`:
\* the item stays a ScheduleBlock, which is not a Schedule. Iterating a
\* ScheduleBlock or a None item raises TypeError
RECURSIVE PreprocessError(_, _)
PreprocessError(items, converter) ==
    IF items = <<>> THEN "none"
    ELSE IF Head(items).kind = "Schedule" /\ ~converter THEN "AttributeError"
    ELSE IF IsNone(Head(items)) \/ Head(items).kind = "ScheduleBlock" THEN "TypeError"
    ELSE PreprocessError(Tail(items), converter)

\* signals_list after the loop: the Schedules replaced by their signals
RECURSIVE Preprocessed(_, _)
Preprocessed(items, channels) ==
    IF items = <<>> THEN <<>>
    ELSE <<IF Head(items).kind = "Schedule" THEN get_signals(Head(items), channels)
           ELSE Head(items)>> \o Preprocessed(Tail(items), channels)

RECURSIVE MaxSamples(_)
MaxSamples(items) ==
    IF items = <<>> THEN 0
    ELSE LET rest == MaxSamples(Tail(items))
         IN  IF AllDiscrete(Head(items)) THEN Max(Head(items).dur, rest) ELSE rest

\* an argument of solve: one input, or a list of inputs
Single(x) == [elems |-> <<x>>, was_list |-> FALSE]
ListArg(elems) == [elems |-> elems, was_list |-> TRUE]

\* _signals_to_list: a list is a list of specifications when its first
\* element is a tuple, a Schedule, a ScheduleBlock, a list or a SignalList; any other list is
\* one list of signals
signals_to_list(arg) ==
    IF arg.was_list
       /\ arg.elems[1].kind \notin {"tuple", "Schedule", "ScheduleBlock", "list", "SignalList"}
    THEN Single([kind |-> "list", id |-> 0, len |-> Len(arg.elems), discrete |-> FALSE,
                 dur |-> 0, mapped |-> FALSE])
    ELSE arg

\* a single input repeated n times
RECURSIVE Repeated(_, _)
Repeated(x, n) == IF n = 0 THEN <<>> ELSE <<x>> \o Repeated(x, n - 1)

\* setup_args_lists: the three lists, a single input repeated to the common
\* length, and whether some argument was a list; lists of different lengths
\* raise QiskitError. A t_span argument is one t_span or a list of them as
\* the caller gave it (t_span_to_list); so is a y0 (_y0_to_list: a list is a
\* list of initial states)
setup_args_lists(t_span, y0arg, signals) ==
    LET t_spans == t_span.elems
        y0s == y0arg.elems
        sigs == signals_to_list(signals).elems
        n == Max(Len(t_spans), Max(Len(y0s), Len(sigs)))
        spread(elems) == IF Len(elems) = 1 THEN Repeated(elems[1], n) ELSE elems
    IN  IF \E elems \in {t_spans, y0s, sigs} : Len(elems) \notin {1, n}
        THEN [ok |-> FALSE, exc |-> "QiskitError"]
        ELSE [ok |-> TRUE, exc |-> "none",
              t_span_list |-> spread(t_spans),
              y0_list |-> spread(y0s),
              signals_list |-> spread(sigs),
              multiple_sims |-> \E arg \in {t_span, y0arg, signals_to_list(signals)} :
                                    arg.was_list]

\* zip(t_span_list, y0_list, signals_list)
RECURSIVE Zip(_, _, _)
Zip(t_spans, y0s, signals) ==
    IF signals = <<>> THEN <<>>
    ELSE <<[t_span_elem |-> Head(t_spans), y0_elem |-> Head(y0s), sigs |-> Head(signals)]>>
         \o Zip(Tail(t_spans), Tail(y0s), Tail(signals))

\* Array(obj).data: the data of a state object as a raw array
ArrayData(obj) ==
    IF obj.kind = "Array" THEN obj ELSE StateOf("Array", obj.shape, obj.of, "data")

NoFormat == [y0_input |-> NoneV, y0_cls |-> "None", state_type_wrapper |-> [cls |-> "None", dims |-> 0]]

\* _jit_sim: the signals rebuilt from the zero-padded samples and organised
\* by channel (one Hamiltonian channel per operator, no dissipator channels)
JitSimSignals(class, sigs, duration) ==
    LET rebuilt == [sigs EXCEPT !.kind = "list", !.dur = duration]
    IN  IF class = "LindbladModel" THEN Pair(rebuilt, NoneV) ELSE rebuilt

\* no _jit_shape call was made by the last step
NoJitCall == [called |-> FALSE]

\* solve is left (by return or by an exception): its locals are gone
SolveLeft ==
    /\ pc' = "idle"
    /\ queue' = <<>>
    /\ old_signals' = NoneV
    /\ can_jit_compile' = FALSE
    /\ max_samples' = 0
    /\ y0' = NoneV
    /\ y0_format' = NoFormat
    /\ multiple_sims' = FALSE

\* the branch of the loop body for signals sigs: whether the compiled path is
\* taken, the exception of _jit_shape and _jit_sim before the signals are
\* assigned, and what signal_assignment's setter gives
RunItemSignals(sigs, cj, ms) ==
    LET jit == cj /\ AllDiscrete(sigs)
        shape == JitShapeResult(all_channels, jit_cache, ms)
        jitExc == IF ~jit THEN "none"
                  ELSE IF shape.status = "raised" THEN shape.exc
                  ELSE IF sigs.len # shape.nchan THEN "IndexError"
                  ELSE "none"
        toInstall == IF jit /\ jitExc = "none"
                     THEN JitSimSignals(model_class, sigs, shape.duration)
                     ELSE sigs
    IN  [jit |-> jit, jitExc |-> jitExc,
         set |-> SignalAssignmentEnter(model_class, rwa_signal_map, toInstall)]

\* one pass of the loop body up to the call of solve_lmde, for the items left;
\* state is the local y0 when the pass begins, made the calls made before it
RunItem(items, cj, ms, nres, current, state, ragged, made, multiple) ==
    \E item \in {Head(items)},
       v \in {validate_and_format_initial_state(state, model_class, model_mode, ragged)},
       step \in {RunItemSignals(Head(items).sigs, cj, ms)} :
       LET jit == step.jit
           jitExc == step.jitExc
           set == step.set
           handed == IF jit THEN ArrayData(item.y0_elem) ELSE item.y0_elem
       IN  /\ jit_cache' = IF v.ok /\ jit THEN JitCacheAfter(jit_cache, ms) ELSE jit_cache
           /\ jit_last' = IF v.ok /\ jit THEN JitRecord(all_channels, jit_cache, ms)
                          ELSE NoJitCall
           /\ all_results' = nres
           /\ IF ~v.ok \/ jitExc # "none" \/ ~set.ok
              THEN /\ outcome' = Raised("solve", IF ~v.ok THEN v.exc
                                                  ELSE IF jitExc # "none" THEN jitExc
                                                  ELSE set.exc)
                   /\ model_signals' = current
                   /\ calls' = made
                   /\ SolveLeft
              ELSE /\ outcome' = NoOutcome
                   /\ pc' = "solve_lmde"
                   /\ queue' = items
                   /\ model_signals' = set.value
                   /\ old_signals' = current
                   /\ can_jit_compile' = cj
                   /\ max_samples' = ms
                   /\ y0' = v.y0
                   /\ y0_format' = [y0_input |-> v.y0_input, y0_cls |-> v.y0_cls,
                                    state_type_wrapper |-> v.wrapper]
                   /\ calls' = Append(made, [t_span |-> item.t_span_elem, y0 |-> handed])
                   /\ multiple_sims' = multiple

DiscreteDurations == {MaxDuration}

UserSignals ==
    {NoneV,
     SignalsOf("list", 1, NumOperators, FALSE, 0),
     SignalsOf("list", 2, NumOperators + 1, FALSE, 0),
     Pair(SignalsOf("list", 1, NumOperators, FALSE, 0), NoneV)}
    \cup {SignalsOf("list", 3, NumOperators, TRUE, d) : d \in DiscreteDurations}

Batches == UNION {[1..n -> UserSignals] : n \in 1..MaxBatch}

\* the t_span and the y0 of the solves that vary their signals
TSpan(id) == [kind |-> "t_span", id |-> id]

\* the lists of specifications handed to solve: the first is not None (such a
\* list is one list of signals), the inner ones repeat the first
SignalsLists ==
    {c \in Batches : /\ Len(c) > 1
                     /\ ~IsNone(c[1])
                     /\ \A i \in 2..(Len(c) - 1) : c[i] = c[1]}

\* the signals arguments: one specification, or a list of them
SignalsArgs == {Single(x) : x \in UserSignals} \cup {ListArg(b) : b \in SignalsLists}

\* solver.solve(t_span, y0, signals, method=...)
Solve(t_span, y0arg, signals, cj, ragged, convert) ==
    /\ pc = "idle"
    /\ pre_signals' = model_signals
    /\ convert_results' = convert
    /\ UNCHANGED <<model_class, rwa_signal_map, all_channels, model_mode, schedule_converter>>
    /\ UNCHANGED <<jit_calls, generatorVars, lindbladVars, copyVars, perturbationVars>>
    /\ results' = <<>>
    /\ return_value' = "none"
    /\ \E args \in {setup_args_lists(t_span, y0arg, signals)} :
          \E exc \in {IF ~args.ok THEN args.exc
                      ELSE PreprocessError(args.signals_list, schedule_converter)} :
             IF exc # "none"
             THEN /\ outcome' = Raised("solve", exc)
                  /\ all_results' = 0
                  /\ jit_last' = NoJitCall
                  /\ calls' = <<>>
                  /\ SolveLeft
                  /\ UNCHANGED <<model_signals, jit_cache>>
             ELSE \E sigs \in {Preprocessed(args.signals_list, all_channels)} :
                     LET whole == IF y0arg.was_list THEN ListOf(y0arg.elems)
                                  ELSE y0arg.elems[1]
                     IN  RunItem(Zip(args.t_span_list, args.y0_list, sigs), cj,
                                 MaxSamples(sigs), 0, model_signals, whole, ragged, <<>>,
                                 args.multiple_sims)

SolveCall ==
    \E signals \in SignalsArgs, cj \in BOOLEAN :
        Solve(Single(TSpan(1)), Single(UserState("Matrix", 1)), signals, cj, "ValueError", TRUE)

\* the states of a result: what format_final_states made of the collaborator's
\* states, wrapped by state_type_wrapper when the input was a quantum object
FinalStates(format) ==
    [y |-> format_final_states(model_class, model_mode, format.y0_input, format.y0_cls),
     wrapped |-> IF format.y0_cls # "None" /\ convert_results THEN format.state_type_wrapper
                 ELSE NoFormat.state_type_wrapper]

\* solve_lmde returns: the with-block ends, the result is appended and the loop
\* goes on to the next item or solve returns
LmdeReturns ==
    /\ pc = "solve_lmde"
    /\ UNCHANGED <<model_class, rwa_signal_map, all_channels, pre_signals, model_mode,
                   schedule_converter>>
    /\ UNCHANGED <<jit_calls, convert_results, generatorVars, lindbladVars, copyVars, perturbationVars>>
    /\ LET exit == SignalAssignmentExit(model_class, old_signals)
           result == [call |-> calls[Len(calls)], states |-> FinalStates(y0_format)]
       IN  IF ~exit.ok
           THEN /\ outcome' = Raised("solve", exit.exc)
                /\ jit_last' = NoJitCall
                /\ return_value' = "none"
                /\ SolveLeft
                /\ UNCHANGED <<model_signals, jit_cache, all_results, calls, results>>
           ELSE /\ results' = Append(results, result)
                /\ IF Tail(queue) = <<>>
                   THEN /\ model_signals' = exit.value
                        /\ outcome' = Returned("solve")
                        /\ all_results' = all_results + 1
                        /\ jit_last' = NoJitCall
                        /\ return_value' = IF multiple_sims THEN "list" ELSE "single"
                        /\ SolveLeft
                        /\ UNCHANGED <<jit_cache, calls>>
                   ELSE /\ return_value' = "none"
                        /\ RunItem(Tail(queue), can_jit_compile, max_samples,
                                   all_results + 1, exit.value, y0, "ValueError", calls,
                                   multiple_sims)

\* solve_lmde raises: the exception leaves the with-block and solve
LmdeRaises ==
    /\ pc = "solve_lmde"
    /\ model_signals' = SignalAssignmentExitOnRaise(model_class, old_signals, model_signals)
    /\ outcome' = Raised("solve", "IntegrationError")
    /\ jit_last' = NoJitCall
    /\ return_value' = "none"
    /\ SolveLeft
    /\ UNCHANGED <<model_class, rwa_signal_map, all_channels, jit_cache, pre_signals,
                   all_results, model_mode, schedule_converter, calls, results>>
    /\ UNCHANGED <<jit_calls, convert_results, generatorVars, lindbladVars, copyVars, perturbationVars>>

\* solver._jit_shape(required_duration), called directly
JitShape(required_duration) ==
    /\ pc = "idle"
    /\ jit_cache' = JitCacheAfter(jit_cache, required_duration)
    /\ jit_last' = JitRecord(all_channels, jit_cache, required_duration)
    /\ outcome' = LET r == JitShapeResult(all_channels, jit_cache, required_duration)
                  IN  IF r.status = "raised" THEN Raised("_jit_shape", r.exc)
                      ELSE Returned("_jit_shape")
    /\ all_results' = 0
    /\ UNCHANGED <<model_class, model_signals, rwa_signal_map, all_channels, pc, queue,
                   old_signals, pre_signals, can_jit_compile, max_samples>>
    /\ calls' = <<>>
    /\ results' = <<>>
    /\ return_value' = "none"
    /\ UNCHANGED <<model_mode, schedule_converter, multiple_sims, y0, y0_format>>
    /\ UNCHANGED <<convert_results, generatorVars, lindbladVars, copyVars, perturbationVars>>

JitShapeCall == \E r \in 0..MaxDuration : JitShape(r) /\ UNCHANGED jit_calls

\* solver.model.signals = signals, by the user between two solves
ModelSignalsValues ==
    {NoneV,
     SignalsOf("SignalList", 0, NumOperators, FALSE, 0),
     Pair(SignalsOf("SignalList", 0, NumOperators, FALSE, 0), NoneV)}

AssignModelSignals ==
    /\ pc = "idle"
    /\ \E v \in ModelSignalsValues :
          LET set == ModelSignalsSetter(model_class, v)
          IN  /\ model_signals' = IF set.ok THEN set.value ELSE model_signals
              /\ outcome' = IF set.ok THEN Returned("signals") ELSE Raised("signals", set.exc)
    /\ pre_signals' = model_signals'
    /\ all_results' = 0
    /\ jit_last' = NoJitCall
    /\ UNCHANGED <<model_class, rwa_signal_map, all_channels, jit_cache, pc, queue,
                   old_signals, can_jit_compile, max_samples>>
    /\ calls' = <<>>
    /\ results' = <<>>
    /\ return_value' = "none"
    /\ UNCHANGED <<model_mode, schedule_converter, multiple_sims, y0, y0_format>>
    /\ UNCHANGED <<jit_calls, convert_results, generatorVars, lindbladVars, copyVars, perturbationVars>>

\* no solve is running and none was made
SolverIdle ==
    /\ jit_cache = {}
    /\ pc = "idle"
    /\ queue = <<>>
    /\ old_signals = NoneV
    /\ pre_signals = model_signals
    /\ all_results = 0
    /\ can_jit_compile = FALSE
    /\ max_samples = 0
    /\ outcome = NoOutcome
    /\ jit_last = NoJitCall
    /\ jit_calls = <<>>
    /\ convert_results = TRUE
    /\ multiple_sims = FALSE
    /\ y0 = NoneV
    /\ y0_format = NoFormat
    /\ calls = <<>>
    /\ results = <<>>
    /\ return_value = "none"

\* the Solver after construction
SolverInit ==
    /\ model_class \in {"HamiltonianModel", "LindbladModel"}
    /\ model_mode = "dense"
    /\ model_signals = IF model_class = "LindbladModel" THEN Pair(NoneV, NoneV) ELSE NoneV
    /\ rwa_signal_map \in BOOLEAN
    /\ all_channels \in {NoneV, [kind |-> "list", len |-> NumOperators]}
    /\ schedule_converter = ~IsNone(all_channels)
    /\ SolverIdle

-----------------------------------------------------------------------------
(* Matrices, symbolically: the conjugations applied so far (basis: +f into the
   basis of frame f, -f out of it) and the frame diagonals added or subtracted
   (terms), each term with the conjugations applied to it since *)

Matrix0 == [basis |-> <<>>, terms |-> {}]

Push(b, f) ==
    IF Len(b) > 0 /\ b[Len(b)] = -f THEN SubSeq(b, 1, Len(b) - 1) ELSE Append(b, f)

Conjugate(x, f) ==
    [basis |-> Push(x.basis, f),
     terms |-> {[t EXCEPT !.conj = Push(t.conj, f)] : t \in x.terms}]

\* x + sign * factor * diag(frame_diag of frame f)
AddDiag(x, sign, factor, f) ==
    LET opposite == [sign |-> -sign, factor |-> factor, frame |-> f, conj |-> <<>>]
        term == [sign |-> sign, factor |-> factor, frame |-> f, conj |-> <<>>]
    IN  IF opposite \in x.terms
        THEN [x EXCEPT !.terms = x.terms \ {opposite}]
        ELSE [x EXCEPT !.terms = x.terms \cup {term}]

\* an array of n operators, as handed to a constructor (lab basis)
Operators(n) == [kind |-> "Array", n |-> n, matrix |-> Matrix0]

\* Frame objects: id 0 is Frame(None), whose frame_diag is None
FrameIds == 0..2
FrameOf(id) == [kind |-> "Frame", id |-> id]
HasDiag(frame) == ~IsNone(frame) /\ frame.id # 0

operator_into_frame_basis(frame, x) == IF HasDiag(frame) THEN Conjugate(x, frame.id) ELSE x
operator_out_of_frame_basis(frame, x) == IF HasDiag(frame) THEN Conjugate(x, -frame.id) ELSE x

-----------------------------------------------------------------------------
(* GeneratorModel: operators on the attribute record m of an instance; each
   gives [ok, m, exc]: the attributes when the call ended and the error raised *)

\* an attribute that was never assigned
Unset == "<unset>"

Unconstructed == [kind |-> "unconstructed"]

Done(m) == [ok |-> TRUE, m |-> m, exc |-> "none"]
Fails(m, exc) == [ok |-> FALSE, m |-> m, exc |-> exc]

DenseOperatorCollection(operators, drift) ==
    [kind |-> "DenseOperatorCollection", operators |-> operators, drift |-> drift,
     num_operators |-> operators.n]

\* BaseGeneratorModel.drift setter
GM_SetDrift(m, new_drift) ==
    LET m1 == [m EXCEPT !.drift = new_drift]
    IN  IF ~IsNone(m.operator_collection)
        THEN [m1 EXCEPT !.operator_collection.drift = new_drift]
        ELSE m1

\* GeneratorModel.evaluation_mode setter
GM_SetEvaluationMode(m, new_mode) ==
    IF new_mode = "dense_operator_collection"
    THEN Done([m EXCEPT !.operator_collection = DenseOperatorCollection(m.operators, m.drift),
                        !.evaluation_mode = new_mode])
    ELSE Done(m)

\* GeneratorModel.frame setter, up to its last statement
GM_SetFrameOperators(m, frame) ==
    LET old == m.frame
        \* the old frame undone: its diagonal added back to the drift, then the
        \* operators and the drift taken out of its basis
        OutDrift(b) == GM_SetDrift(b, operator_out_of_frame_basis(old, b.drift))
        OutOperators(a) ==
            OutDrift([a EXCEPT !.operators.matrix =
                                   operator_out_of_frame_basis(old, a.operators.matrix)])
        \* the new frame applied: the operators and the drift put into its
        \* basis, then its diagonal subtracted from the drift
        Subtract(b) == GM_SetDrift(b, AddDiag(b.drift, -1, "1", frame.id))
        IntoDrift(a) == Subtract(GM_SetDrift(a, operator_into_frame_basis(frame, a.drift)))
        IntoOperators(m2) ==
            IF HasDiag(frame)
            THEN IntoDrift([m2 EXCEPT !.operators.matrix =
                                         operator_into_frame_basis(frame, m2.operators.matrix)])
            ELSE m2
        Assign(m1) == IntoOperators([m1 EXCEPT !.frame = frame])
    IN  Assign(IF HasDiag(old)
               THEN OutOperators(GM_SetDrift(m, AddDiag(m.drift, 1, "1", old.id)))
               ELSE m)

\* GeneratorModel.frame setter
GM_SetFrame(m, frame) ==
    LET \* self.evaluation_mode = self.evaluation_mode: the getter reads
        \* _evaluation_mode, an AttributeError while it was never assigned
        Reassign(m3) ==
            IF m3.evaluation_mode = Unset
            THEN Fails(m3, "AttributeError")
            ELSE GM_SetEvaluationMode(m3, m3.evaluation_mode)
    IN  Reassign(GM_SetFrameOperators(m, frame))

\* GeneratorModel.signals setter
GM_SetSignals(m, signals) ==
    LET Stored(set) == IF set.ok THEN Done([m EXCEPT !.signals = set.value]) ELSE Fails(m, set.exc)
    IN  Stored(GeneratorSignalsSetter(signals, m.operator_collection.num_operators))

\* GeneratorModel.__init__
GM_Construct(n, signals, frame_id, evaluation_mode) ==
    LET m0 == [kind |-> "GeneratorModel",
               operator_collection |-> NoneV,
               operators |-> Operators(n),
               drift |-> NoneV,
               evaluation_mode |-> Unset,
               frame |-> NoneV,
               signals |-> NoneV]
        m1 == GM_SetDrift(m0, Matrix0)
        r2 == GM_SetEvaluationMode(m1, evaluation_mode)
        Signals(r3) == IF ~r3.ok THEN r3 ELSE GM_SetSignals(r3.m, signals)
    IN  Signals(GM_SetFrame(r2.m, FrameOf(frame_id)))

\* Linear maps, symbolically: the sequence of the maps applied to a state, the
\* first applied first. "basis" with dir 1 is U (out of the frame basis) and
\* with dir -1 its adjoint; "rotation" with dir 1 is e^{tF} and with dir -1
\* e^{-tF}; "operators" is the combination of the operators at `time`
Map(name, frame, dir, time) == [map |-> name, frame |-> frame.id, dir |-> dir, time |-> time]

Inverse(a, b) ==
    /\ a.map = b.map /\ a.map # "operators"
    /\ a.frame = b.frame /\ a.time = b.time /\ a.dir = -b.dir

RECURSIVE Then(_, _)
Then(maps, more) ==
    IF more = <<>> THEN maps
    ELSE IF Len(maps) > 0 /\ Inverse(maps[Len(maps)], Head(more))
         THEN Then(SubSeq(maps, 1, Len(maps) - 1), Tail(more))
         ELSE Then(Append(maps, Head(more)), Tail(more))

Basis(frame, dir) == IF HasDiag(frame) THEN <<Map("basis", frame, dir, 0)>> ELSE <<>>
Rotation(frame, dir, time) ==
    IF HasDiag(frame) THEN <<Map("rotation", frame, dir, time)>> ELSE <<>>

\* Frame.state_out_of_frame: e^{tF} y
state_out_of_frame(frame, time, y, y_in_frame_basis, return_in_frame_basis) ==
    LET y1 == IF y_in_frame_basis THEN y ELSE Then(y, Basis(frame, -1))
        y2 == Then(y1, Rotation(frame, 1, time))
    IN  IF return_in_frame_basis THEN y2 ELSE Then(y2, Basis(frame, 1))

\* Frame.state_into_frame: e^{-tF} y
state_into_frame(frame, time, y, y_in_frame_basis, return_in_frame_basis) ==
    LET y1 == IF y_in_frame_basis THEN y ELSE Then(y, Basis(frame, -1))
        y2 == Then(y1, Rotation(frame, -1, time))
    IN  IF return_in_frame_basis THEN y2 ELSE Then(y2, Basis(frame, 1))

\* Frame.operator_into_frame: e^{-tF} A e^{tF}
operator_into_frame(frame, time, op, operator_in_frame_basis, return_in_frame_basis) ==
    LET a1 == IF operator_in_frame_basis THEN op
              ELSE Then(Then(Basis(frame, 1), op), Basis(frame, -1))
        a2 == Then(Then(Rotation(frame, 1, time), a1), Rotation(frame, -1, time))
    IN  IF return_in_frame_basis THEN a2
        ELSE Then(Then(Basis(frame, -1), a2), Basis(frame, 1))

\* self._operator_collection(self._signals(time))
OpCombo(m, time) == <<Map("operators", FrameOf(0), 1, time)>>

\* an evaluation: [status, exc, value]
Value(v) == [status |-> "returned", exc |-> "none", value |-> v]
Error(exc) == [status |-> "raised", exc |-> exc, value |-> NoneV]

\* GeneratorModel.evaluate_generator
GM_evaluate_generator(m, time, in_frame_basis) ==
    IF IsNone(m.signals) THEN Error("QiskitError")
    ELSE Value([of |-> "generator",
                maps |-> operator_into_frame(m.frame, time, OpCombo(m, time),
                                             TRUE, in_frame_basis)])

\* variant: no test of the signals before they are called
GM_evaluate_rhs_Unchecked(m, time, y, in_frame_basis) ==
    IF IsNone(m.signals) THEN Error("AttributeError")
    ELSE LET out1 == state_out_of_frame(m.frame, time, <<>>, in_frame_basis, TRUE)
             out2 == Then(out1, OpCombo(m, time))
         IN  Value([of |-> "rhs", y |-> y,
                    maps |-> state_into_frame(m.frame, time, out2, TRUE, in_frame_basis)])

\* variant: the product is left in the frame basis
GM_evaluate_rhs_InBasis(m, time, y, in_frame_basis) ==
    IF IsNone(m.signals) THEN Error("QiskitError")
    ELSE LET out1 == state_out_of_frame(m.frame, time, <<>>, in_frame_basis, TRUE)
             out2 == Then(out1, OpCombo(m, time))
         IN  Value([of |-> "rhs", y |-> y,
                    maps |-> state_into_frame(m.frame, time, out2, TRUE, TRUE)])

\* GeneratorModel.evaluate_rhs
GM_evaluate_rhs(m, time, y, in_frame_basis) ==
    IF IsNone(m.signals) THEN Error("QiskitError")
    ELSE LET out1 == state_out_of_frame(m.frame, time, <<>>, in_frame_basis, TRUE)
             out2 == Then(out1, OpCombo(m, time))
         IN  Value([of |-> "rhs", y |-> y,
                    maps |-> state_into_frame(m.frame, time, out2, TRUE, in_frame_basis)])

\* BaseGeneratorModel.__call__
GM_call(m, time, y, in_frame_basis) ==
    IF IsNone(y)
    THEN GM_evaluate_generator(m, time, in_frame_basis)
    ELSE GM_evaluate_rhs(m, time, y, in_frame_basis)

-----------------------------------------------------------------------------
(* GeneratorModel: the calls *)

EvaluationModes == {"dense_operator_collection", "sparse_operator_collection", "dense"}

\* values handed to the signals setter: None, lists, SignalLists, tuples of
\* signals and a lone Signal
SignalsValues ==
    {NoneV, [kind |-> "Signal", id |-> 1]}
    \cup {SignalsOf(k, 1, n, FALSE, 0) :
            k \in {"list", "SignalList", "tuple"}, n \in 0..(MaxOperators + 1)}

States == {NoneV, [kind |-> "Array", id |-> 1]}

Called(op, arg, r) ==
    [op |-> op, arg |-> arg, status |-> IF r.ok THEN "returned" ELSE "raised",
     exc |-> r.exc, value |-> NoneV]

Evaluated(op, arg, r) ==
    [op |-> op, arg |-> arg, status |-> r.status, exc |-> r.exc, value |-> r.value]

GM_IsConstructed == gm # Unconstructed

\* GeneratorModel(operators, signals=..., frame=..., evaluation_mode=...)
GM_New ==
    /\ ~GM_IsConstructed
    /\ \E n \in 1..MaxOperators, signals \in SignalsValues, f \in FrameIds,
          mode \in EvaluationModes :
          \E r \in {GM_Construct(n, signals, f, mode)} :
              /\ gm' = IF r.ok THEN r.m ELSE Unconstructed
              /\ gm_last' = Called("__init__",
                                   [signals |-> signals, evaluation_mode |-> mode], r)
    /\ UNCHANGED <<solverVars, lindbladVars, copyVars, perturbationVars>>

\* model.signals = signals
GM_AssignSignals ==
    /\ GM_IsConstructed
    /\ \E signals \in SignalsValues :
          \E r \in {GM_SetSignals(gm, signals)} :
              /\ gm' = r.m
              /\ gm_last' = Called("signals", [signals |-> signals], r)
    /\ UNCHANGED <<solverVars, lindbladVars, copyVars, perturbationVars>>

\* model.evaluation_mode = mode
GM_AssignEvaluationMode ==
    /\ GM_IsConstructed
    /\ \E mode \in EvaluationModes :
          \E r \in {GM_SetEvaluationMode(gm, mode)} :
              /\ gm' = r.m
              /\ gm_last' = Called("evaluation_mode", [evaluation_mode |-> mode], r)
    /\ UNCHANGED <<solverVars, lindbladVars, copyVars, perturbationVars>>

\* what a frame assignment works on: the stored operators and drift, the
\* collection built from them, the frame
GM_Stored(m) ==
    [kind |-> "stored", operators |-> m.operators, drift |-> m.drift,
     operator_collection |-> m.operator_collection, frame |-> m.frame]

\* the record of a frame assignment. An assignment of a frame to a model
\* without one starts a round trip and records what was stored before it; an
\* assignment of None that follows it at once ends the round trip and carries
\* that record on, with the frame the model had in between
FrameCall(f, stored, last) ==
    LET start == ~HasDiag(stored.frame) /\ f # 0
        end == f = 0 /\ last.op = "frame" /\ last.arg.start
    IN  [frame |-> f, start |-> start,
         via |-> IF end THEN last.arg.frame ELSE 0,
         origin |-> IF start THEN stored ELSE IF end THEN last.arg.origin ELSE NoneV]

\* model.frame = frame
GM_AssignFrame ==
    /\ GM_IsConstructed
    /\ \E f \in FrameIds :
          \E r \in {GM_SetFrame(gm, FrameOf(f))} :
              /\ gm' = r.m
              /\ gm_last' = Called("frame", FrameCall(f, GM_Stored(gm), gm_last), r)
    /\ UNCHANGED <<solverVars, lindbladVars, copyVars, perturbationVars>>

\* model.evaluate_generator(time, in_frame_basis)
GM_EvaluateGenerator ==
    /\ GM_IsConstructed
    /\ \E time \in 0..MaxTime, b \in BOOLEAN :
          gm_last' = Evaluated("evaluate_generator", [time |-> time, in_frame_basis |-> b],
                               GM_evaluate_generator(gm, time, b))
    /\ UNCHANGED <<gm, solverVars, lindbladVars, copyVars, perturbationVars>>

\* model.evaluate_rhs(time, y, in_frame_basis)
GM_EvaluateRhs ==
    /\ GM_IsConstructed
    /\ \E time \in 0..MaxTime, b \in BOOLEAN :
          LET y == [kind |-> "Array", id |-> 1]
          IN  gm_last' = Evaluated("evaluate_rhs",
                                   [time |-> time, y |-> y, in_frame_basis |-> b],
                                   GM_evaluate_rhs(gm, time, y, b))
    /\ UNCHANGED <<gm, solverVars, lindbladVars, copyVars, perturbationVars>>

\* model(time, y, in_frame_basis)
GM_Call ==
    /\ GM_IsConstructed
    /\ \E time \in 0..MaxTime, y \in States, b \in BOOLEAN :
          gm_last' = Evaluated("__call__", [time |-> time, y |-> y, in_frame_basis |-> b],
                               GM_call(gm, time, y, b))
    /\ UNCHANGED <<gm, solverVars, lindbladVars, copyVars, perturbationVars>>

GeneratorInit ==
    /\ gm = Unconstructed
    /\ gm_last = [op |-> "none"]


-----------------------------------------------------------------------------
(* LindbladModel: operators on the attribute record m of an instance *)

\* evaluation_mode is a string or None
ModeNone == "None"

LindbladCollection(kind, m) ==
    [kind |-> kind, hamiltonian_operators |-> m.hamiltonian_operators,
     drift |-> m.drift, dissipator_operators |-> m.dissipator_operators]

\* variant: the mode is stored before it is looked at
LM_SetEvaluationMode_StoredFirst(m, new_mode) ==
    LET m1 == [m EXCEPT !.evaluation_mode = new_mode]
    IN  IF new_mode = "dense"
        THEN Done([m1 EXCEPT !.operator_collection =
                                 LindbladCollection("DenseLindbladCollection", m),
                             !.vectorized_operators = "False"])
        ELSE IF new_mode = "sparse"
        THEN Done([m1 EXCEPT !.operator_collection =
                                 LindbladCollection("SparseLindbladCollection", m),
                             !.vectorized_operators = "False"])
        ELSE IF new_mode = "dense_vectorized"
        THEN Done([m1 EXCEPT !.operator_collection =
                                 LindbladCollection("DenseVectorizedLindbladCollection", m),
                             !.vectorized_operators = "True"])
        ELSE IF new_mode = ModeNone
        THEN Done(m1)
        ELSE Fails(m1, "NotImplementedError")

\* LindbladModel.evaluation_mode setter
LM_SetEvaluationMode(m, new_mode) ==
    IF new_mode = "dense"
    THEN Done([m EXCEPT !.operator_collection = LindbladCollection("DenseLindbladCollection", m),
                        !.vectorized_operators = "False",
                        !.evaluation_mode = new_mode])
    ELSE IF new_mode = "sparse"
    THEN Done([m EXCEPT !.operator_collection = LindbladCollection("SparseLindbladCollection", m),
                        !.vectorized_operators = "False",
                        !.evaluation_mode = new_mode])
    ELSE IF new_mode = "dense_vectorized"
    THEN Done([m EXCEPT !.operator_collection =
                            LindbladCollection("DenseVectorizedLindbladCollection", m),
                        !.vectorized_operators = "True",
                        !.evaluation_mode = new_mode])
    ELSE IF new_mode = ModeNone
    THEN Done([m EXCEPT !.evaluation_mode = new_mode])
    ELSE Fails(m, "NotImplementedError")

\* LindbladModel.signals setter
LM_SetSignals(m, new_signals) ==
    LET Stored(set) ==
            IF set.ok
            THEN Done([m EXCEPT !.hamiltonian_signals = set.value.ham,
                                !.dissipator_signals = set.value.dis])
            ELSE Fails(m, set.exc)
    IN  Stored(LindbladSignalsSetter(new_signals))

\* conjugation of the dissipator operators, when there are any
OverDissipators(ops, frame, into) ==
    IF IsNone(ops) THEN ops
    ELSE [ops EXCEPT !.matrix = IF into THEN operator_into_frame_basis(frame, ops.matrix)
                                ELSE operator_out_of_frame_basis(frame, ops.matrix)]

\* variant: the diagonal is added back without the factor 1j
LM_SetFrame_RealDiag(m, frame) ==
    LET old == m.frame
        \* the old frame undone: its diagonal added back to the drift, then the
        \* operators and the drift taken out of its basis
        OutDrift(b) == GM_SetDrift(b, operator_out_of_frame_basis(old, b.drift))
        OutOperators(a) ==
            OutDrift([a EXCEPT !.hamiltonian_operators.matrix =
                                   operator_out_of_frame_basis(
                                       old, a.hamiltonian_operators.matrix),
                               !.dissipator_operators =
                                   OverDissipators(a.dissipator_operators, old, FALSE)])
        \* the new frame applied: the operators and the drift put into its
        \* basis, then its diagonal subtracted from the drift
        Reassign(m3) == LM_SetEvaluationMode(m3, m3.evaluation_mode)
        Subtract(b) == GM_SetDrift(b, AddDiag(b.drift, -1, "1j", frame.id))
        IntoDrift(a) == Subtract(GM_SetDrift(a, operator_into_frame_basis(frame, a.drift)))
        IntoOperators(m2) ==
            IF HasDiag(frame)
            THEN IntoDrift([m2 EXCEPT !.hamiltonian_operators.matrix =
                                         operator_into_frame_basis(
                                             frame, m2.hamiltonian_operators.matrix),
                                     !.dissipator_operators =
                                         OverDissipators(m2.dissipator_operators, frame, TRUE)])
            ELSE m2
        Assign(m1) == Reassign(IntoOperators([m1 EXCEPT !.frame = frame]))
    IN  Assign(IF HasDiag(old)
               THEN OutOperators(GM_SetDrift(m, AddDiag(m.drift, 1, "1", old.id)))
               ELSE m)

\* LindbladModel.frame setter
LM_SetFrame(m, frame) ==
    LET old == m.frame
        \* the old frame undone: its diagonal added back to the drift, then the
        \* operators and the drift taken out of its basis
        OutDrift(b) == GM_SetDrift(b, operator_out_of_frame_basis(old, b.drift))
        OutOperators(a) ==
            OutDrift([a EXCEPT !.hamiltonian_operators.matrix =
                                   operator_out_of_frame_basis(
                                       old, a.hamiltonian_operators.matrix),
                               !.dissipator_operators =
                                   OverDissipators(a.dissipator_operators, old, FALSE)])
        \* the new frame applied: the operators and the drift put into its
        \* basis, then its diagonal subtracted from the drift
        Reassign(m3) == LM_SetEvaluationMode(m3, m3.evaluation_mode)
        Subtract(b) == GM_SetDrift(b, AddDiag(b.drift, -1, "1j", frame.id))
        IntoDrift(a) == Subtract(GM_SetDrift(a, operator_into_frame_basis(frame, a.drift)))
        IntoOperators(m2) ==
            IF HasDiag(frame)
            THEN IntoDrift([m2 EXCEPT !.hamiltonian_operators.matrix =
                                         operator_into_frame_basis(
                                             frame, m2.hamiltonian_operators.matrix),
                                     !.dissipator_operators =
                                         OverDissipators(m2.dissipator_operators, frame, TRUE)])
            ELSE m2
        Assign(m1) == Reassign(IntoOperators([m1 EXCEPT !.frame = frame]))
    IN  Assign(IF HasDiag(old)
               THEN OutOperators(GM_SetDrift(m, AddDiag(m.drift, 1, "1j", old.id)))
               ELSE m)

\* the constructor's treatment of hamiltonian_signals / dissipator_signals
LM_SignalList(signals) ==
    IF ~IsNone(signals) /\ signals.kind = "list"
    THEN SetOk([signals EXCEPT !.kind = "SignalList"])
    ELSE IF ~IsNone(signals) /\ signals.kind = "SignalList" THEN SetOk(signals)
    ELSE SetRaises("Exception")

\* LindbladModel.__init__
LM_Init(hamiltonian_operators, hamiltonian_signals, dissipators, dissipator_signals, drift, frame_id, mode) ==
    LET m0 == [kind |-> "LindbladModel",
               operator_collection |-> NoneV,
               evaluation_mode |-> ModeNone,
               hamiltonian_operators |-> hamiltonian_operators,
               drift |-> IF drift = NoneV THEN Matrix0 ELSE drift,
               dissipator_operators |-> dissipators,
               hamiltonian_signals |-> NoneV,
               dissipator_signals |-> NoneV,
               frame |-> NoneV,
               vectorized_operators |-> Unset]
        \* self.frame = frame, then self.evaluation_mode = evaluation_mode
        Mode(r2) == IF ~r2.ok THEN r2 ELSE LM_SetEvaluationMode(r2.m, mode)
        Assign(hs, ds) ==
            IF ~hs.ok THEN Fails(m0, hs.exc)
            ELSE IF ~ds.ok THEN Fails(m0, ds.exc)
            ELSE Mode(LM_SetFrame([m0 EXCEPT !.hamiltonian_signals = hs.value,
                                             !.dissipator_signals = ds.value],
                                  FrameOf(frame_id)))
    IN  Assign(LM_SignalList(hamiltonian_signals),
               IF IsNone(dissipator_signals)
               THEN IF ~IsNone(dissipators)
                    THEN SetOk(SignalsOf("SignalList", 0, dissipators.n, FALSE, 0))
                    ELSE SetOk(NoneV)
               ELSE LM_SignalList(dissipator_signals))

\* LindbladModel(hamiltonian_operators, hamiltonian_signals, ...) on n_ham
\* operators given in the lab basis, without a drift
LM_Construct(n_ham, hamiltonian_signals, dissipators, dissipator_signals, frame_id, mode) ==
    LM_Init(Operators(n_ham), hamiltonian_signals, dissipators, dissipator_signals, NoneV, frame_id, mode)

\* variant: the drift of the Hamiltonian model is not handed on
LM_from_hamiltonian_NoDrift(hamiltonian, dissipators, dissipator_signals, mode) ==
    LM_Init(hamiltonian.operators, hamiltonian.signals, dissipators, dissipator_signals, NoneV, 0, mode)

\* LindbladModel.from_hamiltonian: no frame is handed to the constructor
LM_from_hamiltonian(hamiltonian, dissipators, dissipator_signals, mode) ==
    LM_Init(hamiltonian.operators, hamiltonian.signals, dissipators, dissipator_signals, hamiltonian.drift, 0, mode)

\* calling the stored signals object with a time
Callable(signals) == ~IsNone(signals) /\ signals.kind = "SignalList"

\* variant: the collection is evaluated whatever the mode
LM_evaluate_generator_AnyMode(m, time, in_frame_basis) ==
    IF ~IsNone(m.dissipator_signals) /\ ~Callable(m.dissipator_signals)
    THEN Error("TypeError")
    ELSE IF ~Callable(m.hamiltonian_signals) THEN Error("TypeError")
    ELSE Value([of |-> "generator", time |-> time, in_frame_basis |-> in_frame_basis,
                frame |-> m.frame.id])

\* LindbladModel.evaluate_generator
LM_evaluate_generator(m, time, in_frame_basis) ==
    IF ~IsNone(m.dissipator_signals) /\ ~Callable(m.dissipator_signals)
    THEN Error("TypeError")
    ELSE IF m.evaluation_mode = "dense_vectorized"
    THEN IF ~Callable(m.hamiltonian_signals) THEN Error("TypeError")
         ELSE Value([of |-> "generator", time |-> time, in_frame_basis |-> in_frame_basis,
                     frame |-> m.frame.id])
    ELSE Error("NotImplementedError")

-----------------------------------------------------------------------------
(* LindbladModel: the calls *)

LM_Modes == {"dense", "sparse", "dense_vectorized", ModeNone, "dense_operator_collection"}

\* a signals object as the constructor and the signals getter hand it out:
\* None or a SignalList, of up to max + 1 signals
SignalLists(max) ==
    {NoneV} \cup {SignalsOf("SignalList", 1, n, FALSE, 0) : n \in 1..(max + 1)}

\* constructor arguments: lists and SignalLists of signals, None
SignalsArguments(max) ==
    SignalLists(max) \cup {SignalsOf("list", 1, n, FALSE, 0) : n \in 1..(max + 1)}

DissipatorOperators == {NoneV} \cup {Operators(n) : n \in 1..MaxDissipators}

LM_IsConstructed == lm # Unconstructed

\* LindbladModel(hamiltonian_operators, hamiltonian_signals, ...)
LM_New ==
    /\ ~LM_IsConstructed
    /\ \E n \in 1..MaxOperators, hs \in SignalsArguments(MaxOperators),
          d \in DissipatorOperators, ds \in SignalsArguments(MaxDissipators),
          f \in FrameIds, mode \in LM_Modes :
          \E r \in {LM_Construct(n, hs, d, ds, f, mode)} :
              /\ lm' = IF r.ok THEN r.m ELSE Unconstructed
              /\ lm_last' = Called("__init__", [evaluation_mode |-> mode], r)
    /\ UNCHANGED <<solverVars, generatorVars, copyVars, perturbationVars>>

\* LindbladModel.from_hamiltonian(h, dissipator_operators, dissipator_signals,
\* evaluation_mode), h being the model built so far
LM_FromHamiltonian ==
    /\ GM_IsConstructed
    /\ lm_last.op = "none"
    /\ \E d \in DissipatorOperators, ds \in SignalsArguments(MaxDissipators), mode \in LM_Modes :
          \E r \in {LM_from_hamiltonian(gm, d, ds, mode)} :
              /\ lm' = IF r.ok THEN r.m ELSE Unconstructed
              /\ lm_last' = Called("from_hamiltonian", [evaluation_mode |-> mode], r)
    /\ UNCHANGED <<solverVars, generatorVars, copyVars, perturbationVars>>

\* model.signals = (hamiltonian_signals, dissipator_signals)
LM_AssignSignals ==
    /\ LM_IsConstructed
    /\ \E hs \in SignalLists(MaxOperators), ds \in SignalLists(MaxDissipators) :
          \E r \in {LM_SetSignals(lm, Pair(hs, ds))} :
              /\ lm' = r.m
              /\ lm_last' = Called("signals", [signals |-> Pair(hs, ds)], r)
    /\ UNCHANGED <<solverVars, generatorVars, copyVars, perturbationVars>>

\* model.evaluation_mode = mode
LM_AssignEvaluationMode ==
    /\ LM_IsConstructed
    /\ \E mode \in LM_Modes :
          \E r \in {LM_SetEvaluationMode(lm, mode)} :
              /\ lm' = r.m
              /\ lm_last' = Called("evaluation_mode", [evaluation_mode |-> mode], r)
    /\ UNCHANGED <<solverVars, generatorVars, copyVars, perturbationVars>>

\* what a frame assignment works on: the stored operators and drift, the
\* collection built from them, the frame
LM_Stored(m) ==
    [kind |-> "stored", hamiltonian_operators |-> m.hamiltonian_operators,
     dissipator_operators |-> m.dissipator_operators, drift |-> m.drift,
     operator_collection |-> m.operator_collection, frame |-> m.frame]

\* model.frame = frame
LM_AssignFrame ==
    /\ LM_IsConstructed
    /\ \E f \in FrameIds :
          \E r \in {LM_SetFrame(lm, FrameOf(f))} :
              /\ lm' = r.m
              /\ lm_last' = Called("frame", FrameCall(f, LM_Stored(lm), lm_last), r)
    /\ UNCHANGED <<solverVars, generatorVars, copyVars, perturbationVars>>

\* model.evaluate_generator(time, in_frame_basis)
LM_EvaluateGenerator ==
    /\ LM_IsConstructed
    /\ \E time \in 0..MaxTime, b \in BOOLEAN :
          lm_last' = Evaluated("evaluate_generator", [time |-> time, in_frame_basis |-> b],
                               LM_evaluate_generator(lm, time, b))
    /\ UNCHANGED <<lm, solverVars, generatorVars, copyVars, perturbationVars>>

LindbladInit ==
    /\ lm = Unconstructed
    /\ lm_last = [op |-> "none"]

-----------------------------------------------------------------------------
(* BaseGeneratorModel.copy: a model and its copy. Attributes are rebound by
   the setters, except for the drift of the operator collection, which the
   drift setter assigns in place: a collection that the two models share
   changes for both *)

Attributes == {"operators", "drift", "operator_collection", "signals", "frame"}

\* variant: copy.copy, the copy holds the objects of the model
GM_copy_Shallow(m) == [m |-> m, aliased |-> Attributes]

\* BaseGeneratorModel.copy: deepcopy, the copy holds objects of its own
GM_copy(m) == [m |-> m, aliased |-> {}]

\* a drift handed to the drift setter: None, or a matrix of its own
UserDrift == [basis |-> <<>>, terms |-> {[sign |-> 1, factor |-> "drift", frame |-> 0, conj |-> <<>>]}]
Drifts == {NoneV, UserDrift}

\* model.drift = new_drift, None standing for zeros
GM_AssignedDrift(new_drift) == IF new_drift = NoneV THEN Matrix0 ELSE new_drift

\* a setter call on `target`: [r, held, rebound], the call's result, the
\* collection object target held before the call as the call left it, and
\* the attributes the call bound to new objects
SetterCall(op, target, arg) ==
    IF op = "drift"
    THEN LET Drift(m1) ==
                 [r |-> Done(m1), held |-> m1.operator_collection, rebound |-> {"drift"}]
         IN  Drift(GM_SetDrift(target, GM_AssignedDrift(arg)))
    ELSE IF op = "frame"
    THEN [r |-> GM_SetFrame(target, FrameOf(arg)),
          held |-> GM_SetFrameOperators(target, FrameOf(arg)).operator_collection,
          rebound |-> {"frame", "operators", "drift", "operator_collection"}]
    ELSE IF op = "signals"
    THEN LET Signals(r) ==
                 [r |-> r, held |-> target.operator_collection,
                  rebound |-> IF r.ok THEN {"signals"} ELSE {}]
         IN  Signals(GM_SetSignals(target, arg))
    ELSE [r |-> GM_SetEvaluationMode(target, arg), held |-> target.operator_collection,
          rebound |-> IF arg = "dense_operator_collection"
                      THEN {"operator_collection"} ELSE {}]

\* the other model after a setter call on its partner
Other(other, call, shared) ==
    IF "operator_collection" \in shared /\ other # Unconstructed
    THEN [other EXCEPT !.operator_collection = call.held]
    ELSE other

SetterArguments(op) ==
    IF op = "drift" THEN Drifts
    ELSE IF op = "frame" THEN FrameIds
    ELSE IF op = "signals" THEN SignalLists(MaxOperators - 1)
    ELSE EvaluationModes

CopyRecord(op, on, r) ==
    [op |-> op, on |-> on, status |-> IF r.ok THEN "returned" ELSE "raised"]

\* c = m.copy()
GM_Copy ==
    /\ GM_IsConstructed
    /\ dup = Unconstructed
    /\ LET c == GM_copy(gm)
       IN  /\ dup' = c.m
           /\ aliased' = c.aliased
    /\ copy_last' = CopyRecord("copy", "m", Done(gm))
    /\ gm_last' = Called("copy", NoneV, Done(gm))
    /\ UNCHANGED <<solverVars, gm, lindbladVars, perturbationVars>>

\* m.<op> = arg, before or after the copy was made
GM_SetOnModel(op) ==
    /\ GM_IsConstructed
    /\ \E arg \in SetterArguments(op) :
          \E call \in {SetterCall(op, gm, arg)} :
              /\ gm' = call.r.m
              /\ dup' = Other(dup, call, aliased)
              /\ aliased' = aliased \ call.rebound
              /\ copy_last' = CopyRecord(op, "m", call.r)
    /\ UNCHANGED <<solverVars, gm_last, lindbladVars, perturbationVars>>

\* c.<op> = arg
GM_SetOnCopy(op) ==
    /\ dup # Unconstructed
    /\ \E arg \in SetterArguments(op) :
          \E call \in {SetterCall(op, dup, arg)} :
              /\ dup' = call.r.m
              /\ gm' = Other(gm, call, aliased)
              /\ aliased' = aliased \ call.rebound
              /\ copy_last' = CopyRecord(op, "c", call.r)
    /\ UNCHANGED <<solverVars, gm_last, lindbladVars, perturbationVars>>

Setters == {"drift", "frame", "signals", "evaluation_mode"}

GM_AssignOnModel == \E op \in Setters : GM_SetOnModel(op)
GM_AssignOnCopy == \E op \in Setters : GM_SetOnCopy(op)

CopyInit ==
    /\ dup = Unconstructed
    /\ aliased = {}
    /\ copy_last = [op |-> "none"]

\* no submultiset_filter call: empty arguments, no result
NoFilterCall == [status |-> "none", result |-> <<>>, candidates |-> <<>>, multiset_list |-> <<>>]

\* no PerturbationResults instance, no call of submultiset_filter
PerturbationInit ==
    /\ pr = Unconstructed
    /\ pr_last = [op |-> "none"]
    /\ msf = NoFilterCall

\* a Solver that is not called
SolverUnused ==
    /\ model_class = "HamiltonianModel"
    /\ rwa_signal_map = FALSE
    /\ all_channels = NoneV
    /\ SolverInit

Init == SolverInit /\ GeneratorInit /\ LindbladInit /\ CopyInit /\ PerturbationInit

\* the Solver in use: solves, direct _jit_shape calls, assignments to its model
Next ==
    \/ SolveCall
    \/ LmdeReturns
    \/ LmdeRaises
    \/ JitShapeCall
    \/ AssignModelSignals

Spec == Init /\ [][Next]_vars

\* a GeneratorModel in use
GeneratorNext ==
    \/ GM_New
    \/ GM_AssignSignals
    \/ GM_AssignEvaluationMode
    \/ GM_AssignFrame
    \/ GM_EvaluateGenerator
    \/ GM_EvaluateRhs
    \/ GM_Call

GeneratorInitial == SolverUnused /\ GeneratorInit /\ LindbladInit /\ CopyInit /\ PerturbationInit

GeneratorSpec == GeneratorInitial /\ [][GeneratorNext]_vars

\* a LindbladModel in use
LindbladNext ==
    \/ LM_New
    \/ LM_AssignSignals
    \/ LM_AssignEvaluationMode
    \/ LM_AssignFrame
    \/ LM_EvaluateGenerator

LindbladSpec == GeneratorInitial /\ [][LindbladNext]_vars

\* a program that builds and uses one model, of either class
ModelNext ==
    \/ lm_last.op = "none" /\ GeneratorNext
    \/ gm_last.op = "none" /\ LindbladNext

ModelSpec == GeneratorInitial /\ [][ModelNext]_vars

\* a Hamiltonian model is built, given signals and frames, and then handed to
\* LindbladModel.from_hamiltonian
HamiltonianNext ==
    \/ lm_last.op = "none" /\ GM_New
    \/ lm_last.op = "none" /\ GM_AssignSignals
    \/ lm_last.op = "none" /\ GM_AssignFrame
    \/ LM_FromHamiltonian

HamiltonianSpec == GeneratorInitial /\ [][HamiltonianNext]_vars

\* a GeneratorModel is built and copied, and attributes of both are assigned
CopyNext ==
    \/ lm_last.op = "none" /\ GM_New
    \/ GM_Copy
    \/ GM_AssignOnModel
    \/ GM_AssignOnCopy

CopySpec == GeneratorInitial /\ [][CopyNext]_vars

\* the initial states handed to solve: quantum objects and raw arrays, `of`
\* telling the objects apart
InitialStates(of) ==
    {UserState(name, of) : name \in {"Statevector", "DensityMatrix", "SuperOp", "Operator",
                                      "Vector", "Matrix", "Vectorized"}}

\* lists of initial states: the inner ones are of the class of the first
Y0Lists ==
    {c \in UNION {[1..n -> UNION {InitialStates(of) : of \in 1..MaxBatch}] : n \in 1..MaxBatch} :
        /\ \A i \in 1..Len(c) : c[i].of = i
        /\ \A i \in 2..(Len(c) - 1) : c[i].kind = c[1].kind /\ c[i].shape = c[1].shape}

Y0Args == {Single(x) : x \in InitialStates(1)} \cup {ListArg(c) : c \in Y0Lists}

\* the t_span arguments tried with a y0 of n states: one t_span, a list of n,
\* and a list of another length
TSpanArgs(n) ==
    {Single(TSpan(1))} \cup {ListArg([i \in 1..k |-> TSpan(i)]) : k \in {n, MaxBatch}}

\* signals that the models accept
ValidSignals == SignalsOf("list", 1, NumOperators, FALSE, 0)

\* what Array(list) may do with the states of y0arg when they have no common
\* shape
Ragged(y0arg) ==
    IF \E i \in 1..Len(y0arg.elems) : y0arg.elems[i].shape # y0arg.elems[1].shape
    THEN {"ValueError", "object"}
    ELSE {"ValueError"}

\* solver.solve(t_span, y0, signals) over the initial states
SolveState(t_span, y0arg, ragged) ==
    \E convert \in BOOLEAN : Solve(t_span, y0arg, Single(ValidSignals), FALSE, ragged, convert)

SolveStates ==
    \E y0arg \in Y0Args :
       \E t_span \in TSpanArgs(Len(y0arg.elems)), ragged \in Ragged(y0arg) :
          SolveState(t_span, y0arg, ragged)

\* a Solver on a model of either class and evaluation mode
StateInit ==
    /\ model_class \in {"HamiltonianModel", "LindbladModel"}
    /\ model_mode \in IF model_class = "LindbladModel" THEN {"dense", "dense_vectorized"}
                     ELSE {"dense"}
    /\ model_signals = IF model_class = "LindbladModel" THEN Pair(NoneV, NoneV) ELSE NoneV
    /\ rwa_signal_map = FALSE
    /\ all_channels = NoneV
    /\ schedule_converter = FALSE
    /\ SolverIdle
    /\ GeneratorInit /\ LindbladInit /\ CopyInit /\ PerturbationInit

StateNext ==
    \/ SolveStates
    \/ LmdeReturns
    \/ LmdeRaises

StateSpec == StateInit /\ [][StateNext]_vars

-----------------------------------------------------------------------------
(* Solver.__init__ *)

\* a channel name is [base, upper]: its letters apart from their case, and
\* whether it is written in upper case

\* chan.lower()
Lower(chan) == [chan EXCEPT !.upper = FALSE]

\* variant: the keys of channel_carrier_freqs are kept as given
CarrierFreqKeys_AsGiven(channel_carrier_freqs) ==
    IF IsNone(channel_carrier_freqs) THEN {} ELSE channel_carrier_freqs.keys

\* the keys of channel_carrier_freqs after "{key.lower(): val ...}", of {} for None
CarrierFreqKeys(channel_carrier_freqs) ==
    IF IsNone(channel_carrier_freqs) THEN {}
    ELSE {Lower(key) : key \in channel_carrier_freqs.keys}

\* the lower-cased names of a channels argument
Lowered(channels) ==
    IF IsNone(channels) THEN {} ELSE {Lower(channels.elems[i]) : i \in 1..Len(channels.elems)}

\* any([dt, channel_carrier_freqs, hamiltonian_channels, dissipator_channels])
PulseInformation(a) ==
    \/ a.dt
    \/ ~IsNone(a.channel_carrier_freqs) /\ a.channel_carrier_freqs.keys # {}
    \/ ~IsNone(a.hamiltonian_channels) /\ a.hamiltonian_channels.elems # <<>>
    \/ ~IsNone(a.dissipator_channels) /\ a.dissipator_channels.elems # <<>>

\* Solver(hamiltonian_operators of NumOperators operators, ...): the error
\* raised, or the attributes of the Solver. a.dissipator_operators is the
\* number of dissipator operators, 0 for None; a.dt and a.rwa_cutoff_freq tell
\* whether the argument is given
Solver_init(a) ==
    LET all == Lowered(a.hamiltonian_channels) \cup Lowered(a.dissipator_channels)
        keys == CarrierFreqKeys(a.channel_carrier_freqs)
        raises ==
            /\ PulseInformation(a)
            /\ \/ /\ ~IsNone(a.hamiltonian_channels)
                  /\ Len(a.hamiltonian_channels.elems) # NumOperators
               \/ /\ ~IsNone(a.dissipator_channels)
                  /\ \/ a.dissipator_operators = 0
                     \/ Len(a.dissipator_channels.elems) # a.dissipator_operators
               \/ \E chan \in all : chan \notin keys
               \/ ~a.dt
        class == IF a.dissipator_operators = 0 THEN "HamiltonianModel" ELSE "LindbladModel"
        ham == SignalsOf("SignalList", 0, NumOperators, FALSE, 0)
        dis == SignalsOf("SignalList", 0, a.dissipator_operators, FALSE, 0)
    IN  IF raises THEN [ok |-> FALSE, exc |-> "QiskitError"]
        ELSE [ok |-> TRUE, exc |-> "none",
              model_class |-> class,
              all_channels |-> IF PulseInformation(a)
                               THEN [kind |-> "list", len |-> Cardinality(all)]
                               ELSE NoneV,
              schedule_converter |-> PulseInformation(a),
              rwa_signal_map |-> a.rwa_cutoff_freq,
              model_signals |-> IF a.rwa_cutoff_freq
                                THEN RwaSignalMap(IF class = "LindbladModel"
                                                  THEN Pair(ham, dis) ELSE ham)
                                ELSE IF class = "LindbladModel" THEN Pair(NoneV, NoneV)
                                ELSE NoneV]

ChannelNames == [base : {"d0", "u0"}, upper : BOOLEAN]

ChannelLists(lens) ==
    {NoneV} \cup {[kind |-> "list", elems |-> c] : c \in UNION {[1..n -> ChannelNames] : n \in lens}}

SolverArguments ==
    [hamiltonian_channels : ChannelLists({NumOperators - 1, NumOperators}),
     dissipator_channels : ChannelLists({1}),
     channel_carrier_freqs : {NoneV} \cup {[kind |-> "dict", keys |-> k] : k \in SUBSET ChannelNames},
     dt : BOOLEAN,
     dissipator_operators : {0, 1},
     rwa_cutoff_freq : BOOLEAN]

\* no Solver was made yet
SolverAbsent == model_class = "none"

\* solver = Solver(...), once
SolverNew ==
    /\ SolverAbsent
    /\ outcome = NoOutcome
    /\ \E a \in SolverArguments :
          LET r == Solver_init(a)
          IN  /\ outcome' = [op |-> "__init__", status |-> IF r.ok THEN "returned" ELSE "raised",
                             exc |-> r.exc, arg |-> a]
              /\ model_class' = IF r.ok THEN r.model_class ELSE model_class
              /\ all_channels' = IF r.ok THEN r.all_channels ELSE all_channels
              /\ schedule_converter' = IF r.ok THEN r.schedule_converter ELSE schedule_converter
              /\ rwa_signal_map' = IF r.ok THEN r.rwa_signal_map ELSE rwa_signal_map
              /\ model_signals' = IF r.ok THEN r.model_signals ELSE model_signals
    /\ pre_signals' = model_signals'
    /\ UNCHANGED <<jit_cache, pc, queue, old_signals, all_results, can_jit_compile, max_samples,
                   jit_last, model_mode, multiple_sims, y0, y0_format, calls, results,
                   return_value>>
    /\ UNCHANGED <<jit_calls, convert_results, generatorVars, lindbladVars, copyVars, perturbationVars>>

\* the signals arguments of the solves of a Solver made for pulse simulation
PulseSignalsArgs ==
    {Single(ScheduleOf(1, MaxDuration)), Single(ValidSignals),
     Single(SignalsOf("list", 3, NumOperators, TRUE, MaxDuration))}
        \cup {ListArg([i \in 1..n |-> ScheduleOf(i, MaxDuration)]) : n \in 1..MaxBatch}
        \cup {Single(ScheduleBlockOf(1, MaxDuration)),
              ListArg(<<ScheduleOf(1, MaxDuration), ScheduleBlockOf(2, MaxDuration)>>)}

SolvePulse(signals, cj) ==
    /\ ~SolverAbsent
    /\ Solve(Single(TSpan(1)), Single(UserState("Matrix", 1)), signals, cj, "ValueError", TRUE)

SolvePulses == \E signals \in PulseSignalsArgs, cj \in BOOLEAN : SolvePulse(signals, cj)

PulseInit ==
    /\ SolverAbsent
    /\ model_mode = "dense"
    /\ model_signals = NoneV
    /\ rwa_signal_map = FALSE
    /\ all_channels = NoneV
    /\ schedule_converter = FALSE
    /\ SolverIdle
    /\ GeneratorInit /\ LindbladInit /\ CopyInit /\ PerturbationInit

\* a Solver is made and used for pulse simulation
PulseNext ==
    \/ SolverNew
    \/ SolvePulses
    \/ LmdeReturns
    \/ LmdeRaises

PulseSpec == PulseInit /\ [][PulseNext]_vars

\* _jit_shape alone, over a wider range of required durations
JitShapeAny == \E r \in 0..MaxRequired : JitShape(r) /\ UNCHANGED jit_calls

JitNext == JitShapeAny

JitSpec == Init /\ [][JitNext]_vars

\* _jit_shape called up to MaxCalls times, the required durations recorded
JitShapeRecorded ==
    /\ Len(jit_calls) < MaxCalls
    /\ \E r \in 0..MaxRequired : JitShape(r) /\ jit_calls' = Append(jit_calls, r)

JitCallsNext == JitShapeRecorded

JitCallsSpec == Init /\ [][JitCallsNext]_vars

-----------------------------------------------------------------------------
(* Claims about the Solver *)

\* C1: once an exception raised by solve_lmde has propagated out of solve,
\* the model's signals equal the value they had before the solve call.
C1_SignalsRestoredAfterRaise ==
    (pc = "idle" /\ outcome = Raised("solve", "IntegrationError"))
        => model_signals = pre_signals

\* C2: after solve returns normally the model's signals equal the value they
\* had before the call, and while an item is integrated the value saved for
\* restoration is that pre-call value (the items before it were undone).
C2_SignalsRestoredAfterReturn ==
    /\ (pc = "idle" /\ outcome = Returned("solve")) => model_signals = pre_signals
    /\ pc = "solve_lmde" => old_signals = pre_signals

\* a two-item solve through the RWA signal map has returned, on a model whose
\* signals were set before the call
C2_Witness ==
    /\ pc = "idle"
    /\ outcome = Returned("solve")
    /\ all_results = 2
    /\ rwa_signal_map
    /\ pre_signals.kind = "SignalList"

\* round(1.5 * r) as the nearest integer to 3r/2, ties going to the even one
NearestEven(r) ==
    CHOOSE n \in 0..(2 * r + 1) :
        LET diff == 2 * n - 3 * r
        IN  /\ diff \in {-1, 0, 1}
            /\ diff # 0 => n % 2 = 0

\* the buckets b of `cache` with b * 0.2 < r <= b
Fitting(cache, r) == {b \in cache : 2 * b < 10 * r /\ r <= b}

\* C3: when the cache holds a bucket with bucket * 0.2 < required <= bucket,
\* _jit_shape returns the smallest such bucket and leaves the cache unchanged;
\* otherwise it returns round(1.5 * required) and adds exactly that value.
C3_JitShapeBucket ==
    jit_last.called =>
        LET r == jit_last.required
            before == jit_last.before
            fits == Fitting(before, r)
            returned == jit_last.result.status = "returned"
        IN  IF fits # {}
            THEN /\ jit_cache = before
                 /\ returned => /\ jit_last.result.duration \in fits
                                /\ \A b \in fits : jit_last.result.duration <= b
            ELSE /\ jit_cache = before \cup {NearestEven(r)}
                 /\ returned => jit_last.result.duration = NearestEven(r)

\* _jit_shape has returned a bucket where two buckets of the cache fit
C3_Witness ==
    /\ jit_last.called
    /\ jit_last.result.status = "returned"
    /\ Cardinality(Fitting(jit_last.before, jit_last.required)) >= 2
    /\ jit_last.result.duration \in jit_last.before

\* C4: the cache starts empty and a duration that is in it stays in it over
\* every step of solve and _jit_shape.
C4_CacheAppendOnly == jit_cache = {} /\ [][jit_cache \subseteq jit_cache']_vars

\* a solve has left the cache with more than one duration
C4_Witness ==
    /\ Cardinality(jit_cache) >= 2
    /\ outcome.op = "solve"
    /\ jit_last.called

-----------------------------------------------------------------------------
(* Claims about GeneratorModel *)

IsEvaluation(last) == last.op \in {"evaluate_generator", "evaluate_rhs", "__call__"}

\* C5: with signals None every evaluation of a GeneratorModel, by
\* evaluate_generator, evaluate_rhs or __call__ with or without a state, raises
\* QiskitError and returns no value, whatever the frame and in_frame_basis.
C5_UnsetSignalsRaise ==
    (GM_IsConstructed /\ IsEvaluation(gm_last) /\ IsNone(gm.signals))
        => /\ gm_last.status = "raised"
           /\ gm_last.exc = "QiskitError"
           /\ IsNone(gm_last.value)

\* model(t, y) has been called in the frame basis on a model with a frame and
\* without signals
C5_Witness ==
    /\ GM_IsConstructed
    /\ gm_last.op = "__call__"
    /\ ~IsNone(gm_last.arg.y)
    /\ gm_last.arg.in_frame_basis
    /\ HasDiag(gm.frame)
    /\ IsNone(gm.signals)
    /\ gm_last.status = "raised"

\* a value the signals setter has to refuse for a model of n operators
Refused(signals, n) ==
    /\ ~IsNone(signals)
    /\ \/ signals.kind \notin {"list", "SignalList"}
       \/ signals.len # n

OnePerOperator(m) ==
    \/ IsNone(m.signals)
    \/ /\ m.signals.kind = "SignalList"
       /\ m.signals.len = m.operator_collection.num_operators

\* C6: an assignment to signals of a value that is not None, a list or a
\* SignalList, or whose length is not the number of operators, raises
\* QiskitError and leaves the stored signals as they were; the stored signals
\* are always None or one signal per operator.
C6_SignalsMatchOperators ==
    /\ [](GM_IsConstructed => OnePerOperator(gm))
    /\ [][(gm_last'.op = "signals"
           /\ Refused(gm_last'.arg.signals, gm.operator_collection.num_operators))
             => /\ gm_last'.status = "raised"
                /\ gm_last'.exc = "QiskitError"
                /\ gm'.signals = gm.signals]_vars

\* a SignalList of the wrong length was refused and the signals stored before
\* are still there
C6_Witness ==
    /\ GM_IsConstructed
    /\ gm_last.op = "signals"
    /\ gm_last.arg.signals.kind = "SignalList"
    /\ gm_last.arg.signals.len # gm.operator_collection.num_operators
    /\ gm_last.status = "raised"
    /\ ~IsNone(gm.signals)

\* C8: setting evaluation_mode to anything but "dense_operator_collection", in
\* the constructor or by assignment, raises an error at that point.
C8_UnsupportedModeRaises ==
    (/\ gm_last.op \in {"__init__", "evaluation_mode"}
     /\ gm_last.arg.evaluation_mode # "dense_operator_collection")
        => gm_last.status = "raised"

-----------------------------------------------------------------------------
(* Claims about LindbladModel *)

\* the number of signals in a stored signals object differs from n
Miscounted(signals, n) == ~IsNone(signals) /\ signals.len # n

\* C7: a constructed LindbladModel has as many Hamiltonian signals as
\* Hamiltonian operators and, with dissipator operators, as many dissipator
\* signals as dissipator operators, after construction and after every
\* assignment to signals.
C7_SignalCountsMatch ==
    LM_IsConstructed =>
        /\ ~Miscounted(lm.hamiltonian_signals, lm.hamiltonian_operators.n)
        /\ ~IsNone(lm.dissipator_operators)
             => ~Miscounted(lm.dissipator_signals, lm.dissipator_operators.n)

LM_Supported == {"dense", "sparse", "dense_vectorized"}

\* evaluation_mode, the operator collection and vectorized_operators are the
\* same in m and n
SameEvaluation(m, n) ==
    /\ m.evaluation_mode = n.evaluation_mode
    /\ m.operator_collection = n.operator_collection
    /\ m.vectorized_operators = n.vectorized_operators

C10_GeneratorOnlyVectorized ==
    (LM_IsConstructed /\ lm_last.op = "evaluate_generator")
        => /\ lm_last.status = "returned" => lm.evaluation_mode = "dense_vectorized"
           /\ lm.evaluation_mode \in {"dense", "sparse"}
                => /\ lm_last.status = "raised"
                   /\ lm_last.exc = "NotImplementedError"
                   /\ IsNone(lm_last.value)

\* evaluate_generator was called in the frame basis, at a time after 0, on a
\* sparse model with a frame
C10_Witness ==
    /\ LM_IsConstructed
    /\ lm_last.op = "evaluate_generator"
    /\ lm.evaluation_mode = "sparse"
    /\ HasDiag(lm.frame)
    /\ lm_last.arg.in_frame_basis
    /\ lm_last.arg.time > 0
    /\ lm_last.status = "raised"

-----------------------------------------------------------------------------
(* Claims about the frame of a model *)

\* the call `last` set the frame back to None right after an assignment that
\* had set a frame on a model without one
FrameRoundTrip(last) ==
    /\ last.op = "frame"
    /\ last.status = "returned"
    /\ last.arg.frame = 0
    /\ last.arg.via # 0
    /\ ~IsNone(last.arg.origin)
    /\ ~HasDiag(last.arg.origin.frame)

\* C11: setting a frame on a GeneratorModel or LindbladModel without one and
\* setting it back to None at once restores the stored operators (Hamiltonian
\* and dissipator), the drift and the operator collection built from them.
C11_FrameRoundTrip ==
    /\ (GM_IsConstructed /\ FrameRoundTrip(gm_last))
         => /\ gm.operators = gm_last.arg.origin.operators
            /\ gm.drift = gm_last.arg.origin.drift
            /\ gm.operator_collection = gm_last.arg.origin.operator_collection
    /\ (LM_IsConstructed /\ FrameRoundTrip(lm_last))
         => /\ lm.hamiltonian_operators = lm_last.arg.origin.hamiltonian_operators
            /\ lm.dissipator_operators = lm_last.arg.origin.dissipator_operators
            /\ lm.drift = lm_last.arg.origin.drift
            /\ lm.operator_collection = lm_last.arg.origin.operator_collection

\* the second frame was set on a dense LindbladModel with dissipators and
\* unset again
C11_Witness ==
    /\ LM_IsConstructed
    /\ FrameRoundTrip(lm_last)
    /\ lm_last.arg.via = 2
    /\ ~IsNone(lm.dissipator_operators)
    /\ lm.evaluation_mode = "dense"
    /\ lm.operator_collection.kind = "DenseLindbladCollection"

-----------------------------------------------------------------------------
(* Claims about the evaluations of a GeneratorModel *)

\* C12: with signals set, evaluate_rhs(t, y, in_frame_basis) is
\* evaluate_generator(t, in_frame_basis) applied to y, for every time, state,
\* frame and value of in_frame_basis: the maps applied to y are the same.
C12_RhsIsGeneratorApplied ==
    (GM_IsConstructed /\ gm_last.op = "evaluate_rhs" /\ ~IsNone(gm.signals))
        => LET generator == GM_evaluate_generator(gm, gm_last.arg.time,
                                                  gm_last.arg.in_frame_basis)
           IN  /\ gm_last.status = "returned"
               /\ generator.status = "returned"
               /\ gm_last.value.y = gm_last.arg.y
               /\ gm_last.value.maps = generator.value.maps

\* evaluate_rhs has returned outside the frame basis, at a time after 0, on a
\* model with a frame: five maps were applied to y
C12_Witness ==
    /\ GM_IsConstructed
    /\ gm_last.op = "evaluate_rhs"
    /\ gm_last.status = "returned"
    /\ HasDiag(gm.frame)
    /\ ~gm_last.arg.in_frame_basis
    /\ gm_last.arg.time > 0
    /\ Len(gm_last.value.maps) = 5

-----------------------------------------------------------------------------
(* Claims about LindbladModel.from_hamiltonian *)

FromHamiltonian(last) ==
    last.op = "from_hamiltonian" /\ last.arg.evaluation_mode \in LM_Supported

\* the Hamiltonian part of the LindbladModel is that of the model h
SameHamiltonian(m, h) ==
    /\ m.hamiltonian_operators = h.operators
    /\ m.hamiltonian_signals = h.signals
    /\ m.drift = h.drift

\* C13 as stated: for every Hamiltonian model h, from_hamiltonian returns a
\* LindbladModel whose Hamiltonian operators, Hamiltonian signals and drift
\* are h.operators, h.signals and h.drift.
C13_Original ==
    FromHamiltonian(lm_last)
        => /\ lm_last.status = "returned"
           /\ LM_IsConstructed
           /\ SameHamiltonian(lm, gm)

\* C13: from_hamiltonian returns a LindbladModel exactly when h has signals
\* set, and then its Hamiltonian operators, Hamiltonian signals and drift are
\* h.operators, h.signals and h.drift, also when h has a frame; for an h whose
\* signals are None the constructor raises Exception and there is no model.
C13_FromHamiltonian ==
    FromHamiltonian(lm_last)
        => /\ lm_last.status = "raised" <=> IsNone(gm.signals)
           /\ lm_last.status = "raised" => lm_last.exc = "Exception" /\ ~LM_IsConstructed
           /\ lm_last.status = "returned" => LM_IsConstructed /\ SameHamiltonian(lm, gm)

\* from_hamiltonian has returned for an h with a frame and signals, with
\* dissipator operators
C13_Witness ==
    /\ FromHamiltonian(lm_last)
    /\ lm_last.status = "returned"
    /\ HasDiag(gm.frame)
    /\ gm.drift # Matrix0
    /\ ~IsNone(gm.signals)
    /\ ~IsNone(lm.dissipator_operators)

-----------------------------------------------------------------------------
(* Claims about copies *)

\* C14: after c = m.copy(), an assignment to the frame, signals, drift or
\* evaluation_mode of c leaves every attribute of m as it was (operators,
\* drift, signals, frame, evaluation mode, operator collection), and an
\* assignment on m leaves every attribute of c as it was.
C14_CopyIsDeep ==
    [][(copy_last'.op \in Setters /\ dup # Unconstructed)
         => /\ copy_last'.on = "c" => gm' = gm
            /\ copy_last'.on = "m" => dup' = dup]_vars

\* the drift of the copy was assigned while the model and the copy had a
\* frame, and the two now hold different drifts and collections
C14_Witness ==
    /\ dup # Unconstructed
    /\ copy_last.op = "drift"
    /\ copy_last.on = "c"
    /\ HasDiag(gm.frame)
    /\ gm.drift # dup.drift
    /\ gm.operator_collection # dup.operator_collection

-----------------------------------------------------------------------------
(* Claims about the initial states of solve *)

\* the step appends the result of the item the collaborator ran for
ResultAppended == pc = "solve_lmde" /\ Len(results') = Len(results) + 1

\* the lists of the call have one length
SameLengths(t_span, y0arg) == setup_args_lists(t_span, y0arg, Single(ValidSignals)).ok

\* a super-operator state for a model that is not vectorized
Unsupported(state) ==
    state.kind = "SuperOp" /\ is_lindblad_model_not_vectorized(model_class, model_mode)

\* C15: the pass of solve's loop for an item whose initial state is a SuperOp,
\* the model being a LindbladModel in a non-vectorized evaluation mode, raises
\* QiskitError without a call of the collaborator for it and with the model's
\* signals as they were before the pass.
C15_SuperOpRefusedBeforeIntegration ==
    [][/\ \A y0arg \in Y0Args :
             \A t_span \in TSpanArgs(Len(y0arg.elems)), ragged \in Ragged(y0arg) :
                (/\ pc = "idle"
                 /\ Unsupported(y0arg.elems[1])
                 /\ SameLengths(t_span, y0arg)
                 /\ SolveState(t_span, y0arg, ragged))
                    => /\ outcome' = Raised("solve", "QiskitError")
                       /\ calls' = <<>>
                       /\ model_signals' = model_signals
       /\ (ResultAppended /\ Tail(queue) # <<>> /\ Unsupported(Tail(queue)[1].y0_elem))
             => /\ outcome' = Raised("solve", "QiskitError")
                /\ calls' = calls
                /\ model_signals' = pre_signals]_vars

\* an initial state that validate_and_format_initial_state accepts for the model
ValidState(state) ==
    validate_and_format_initial_state(state, model_class, model_mode, "ValueError").ok

\* C16: solve called with t_span and y0 each one input or a list of N inputs
\* that the model accepts calls the collaborator once for every item, in
\* order, with the item's t_span and initial state, and returns the N
\* results, as a list when some argument was a list and as one result else.
C16_OneCallPerItem ==
    [][/\ \A y0arg \in Y0Args :
             \A t_span \in TSpanArgs(Len(y0arg.elems)), ragged \in Ragged(y0arg) :
                (/\ pc = "idle"
                 /\ \A i \in 1..Len(y0arg.elems) : ValidState(y0arg.elems[i])
                 /\ SameLengths(t_span, y0arg)
                 /\ SolveState(t_span, y0arg, ragged))
                    => /\ pc' = "solve_lmde"
                       /\ Len(calls') = 1
                       /\ calls'[1].t_span = t_span.elems[1]
                       /\ calls'[1].y0.of = 1
       /\ (ResultAppended /\ Tail(queue) # <<>> /\ ValidState(Tail(queue)[1].y0_elem))
             => /\ pc' = "solve_lmde"
                /\ Len(calls') = Len(calls) + 1
                /\ calls'[Len(calls')].t_span = Tail(queue)[1].t_span_elem
                /\ calls'[Len(calls')].y0.of = Tail(queue)[1].y0_elem.of
       /\ (ResultAppended /\ Tail(queue) = <<>>)
             => /\ outcome' = Returned("solve")
                /\ \A i \in 1..Len(results') : results'[i].call = calls[i]
                /\ return_value' = IF multiple_sims THEN "list" ELSE "single"]_vars

\* C17: while the collaborator runs for an item, the initial state it was
\* handed is the array validate_and_format_initial_state makes of that item's
\* own initial state, and the input array, type tag and wrapper recorded for
\* the formatting of its final states are those of that item.
C17_ItemStateConverted ==
    pc = "solve_lmde" =>
        LET v == validate_and_format_initial_state(Head(queue).y0_elem, model_class,
                                                   model_mode, "ValueError")
        IN  /\ v.ok
            /\ calls[Len(calls)].y0 = v.y0
            /\ y0_format = [y0_input |-> v.y0_input, y0_cls |-> v.y0_cls,
                            state_type_wrapper |-> v.wrapper]

-----------------------------------------------------------------------------
(* Claims about pulse simulation and the construction of a Solver *)

\* C18: solve raises QiskitError when its signals are a Schedule, or a list
\* of Schedules, and the Solver has no schedule converter.
C18_ScheduleWithoutConverterRaises ==
    [][\A signals \in PulseSignalsArgs, cj \in BOOLEAN :
          (/\ ~schedule_converter
           /\ \E i \in 1..Len(signals.elems) : signals.elems[i].kind = "Schedule"
           /\ SolvePulse(signals, cj))
              => outcome' = Raised("solve", "QiskitError")]_vars

\* the channels named by the arguments of a constructor call
Named(a) ==
    (IF IsNone(a.hamiltonian_channels) THEN {}
     ELSE {a.hamiltonian_channels.elems[i] : i \in 1..Len(a.hamiltonian_channels.elems)})
    \cup (IF IsNone(a.dissipator_channels) THEN {}
          ELSE {a.dissipator_channels.elems[i] : i \in 1..Len(a.dissipator_channels.elems)})

\* chan has no entry in channel_carrier_freqs, the case of the letters ignored
NoCarrierFreq(chan, a) ==
    \/ IsNone(a.channel_carrier_freqs)
    \/ \A key \in a.channel_carrier_freqs.keys : key.base # chan.base

\* the other requirements of the constructor on the pulse arguments
WellFormed(a) ==
    /\ a.dt
    /\ IsNone(a.hamiltonian_channels) \/ Len(a.hamiltonian_channels.elems) = NumOperators
    /\ IsNone(a.dissipator_channels)
          \/ Len(a.dissipator_channels.elems) = a.dissipator_operators

\* C19: a construction in which some channel of hamiltonian_channels or
\* dissipator_channels has no entry in channel_carrier_freqs, the names
\* compared without regard to case, raises QiskitError and makes no Solver;
\* when every channel has an entry and the other pulse arguments are well
\* formed, the Solver is made.
C19_MissingCarrierFreqRaises ==
    outcome.op = "__init__" =>
        /\ (\E chan \in Named(outcome.arg) : NoCarrierFreq(chan, outcome.arg))
              => /\ outcome.status = "raised"
                 /\ outcome.exc = "QiskitError"
                 /\ SolverAbsent
        /\ (/\ WellFormed(outcome.arg)
            /\ \A chan \in Named(outcome.arg) : ~NoCarrierFreq(chan, outcome.arg))
              => /\ outcome.status = "returned"
                 /\ ~SolverAbsent

C19_Witness ==
    /\ outcome.op = "__init__"
    /\ WellFormed(outcome.arg)
    /\ \E chan \in Named(outcome.arg) :
          /\ chan.upper
          /\ ~NoCarrierFreq(chan, outcome.arg)
          /\ chan \notin outcome.arg.channel_carrier_freqs.keys
    /\ \E chan \in Named(outcome.arg) : NoCarrierFreq(chan, outcome.arg)
    /\ outcome.status = "raised"
    /\ SolverAbsent

\* the Hamiltonian signals of the item the collaborator runs for, and those
\* installed in the model
UserPart == IF Head(queue).sigs.kind = "tuple" THEN Head(queue).sigs.ham ELSE Head(queue).sigs
InstalledPart == IF model_class = "LindbladModel" THEN model_signals.ham ELSE model_signals

-----------------------------------------------------------------------------
(* Claims about the durations of _jit_shape *)

\* C28: the duration _jit_shape returns is at least the required duration,
\* in the call made last and, for that required duration, on every cache
\* content.
C28_JitDurationHoldsRequired ==
    (jit_last.called /\ jit_last.result.status = "returned") =>
        /\ jit_last.result.duration >= jit_last.required
        /\ \A cache \in SUBSET (0..MaxRequired) :
              JitDuration(cache, jit_last.required) >= jit_last.required

\* _jit_shape has returned a bucket of the cache that is longer than required
C28_Witness ==
    /\ jit_last.called
    /\ jit_last.result.status = "returned"
    /\ jit_last.result.duration \in jit_last.before
    /\ jit_last.result.duration > jit_last.required

\* the call made last repeats the required duration of an earlier call
RepeatedCall ==
    /\ jit_last.called
    /\ \E i \in 1..(Len(jit_calls) - 1) : jit_calls[i] = jit_calls[Len(jit_calls)]

\* C29 as stated: a repeated call adds nothing to the cache and returns a
\* duration that satisfies the reuse condition.
C29_Original ==
    RepeatedCall =>
        /\ jit_cache = jit_last.before
        /\ jit_last.result.status = "returned" =>
              jit_last.result.duration \in Fitting(jit_cache, jit_last.required)

\* C29: a call that repeats the required duration of an earlier call, with
\* any calls in between, adds nothing to the cache, and when that duration
\* is positive it returns a duration that satisfies the reuse condition.
C29_JitShapeIdempotent ==
    RepeatedCall =>
        /\ jit_cache = jit_last.before
        /\ (jit_last.result.status = "returned" /\ jit_last.required > 0) =>
              jit_last.result.duration \in Fitting(jit_cache, jit_last.required)

\* a required duration was repeated after a call for another duration that
\* added a bucket of its own
C29_Witness ==
    /\ Len(jit_calls) = 3
    /\ jit_calls[1] = jit_calls[3]
    /\ jit_calls[2] # jit_calls[1]
    /\ jit_calls[1] > 0
    /\ Cardinality(jit_cache) = 2
    /\ jit_last.result.status = "returned"

-----------------------------------------------------------------------------
(* Claims about frames and evaluation modes *)

\* the frame setter of the model has returned
GM_FrameSet == gm_last.op = "frame" /\ gm_last.status = "returned"
LM_FrameSet == lm_last.op = "frame" /\ lm_last.status = "returned"

\* the collection holds the operators and the drift the model stores
GM_CollectionCurrent ==
    /\ ~IsNone(gm.operator_collection)
    /\ gm.operator_collection.operators = gm.operators
    /\ gm.operator_collection.drift = gm.drift

LM_CollectionCurrent ==
    /\ ~IsNone(lm.operator_collection)
    /\ lm.operator_collection.hamiltonian_operators = lm.hamiltonian_operators
    /\ lm.operator_collection.dissipator_operators = lm.dissipator_operators
    /\ lm.operator_collection.drift = lm.drift

\* C24: after the frame setter of a GeneratorModel or of a LindbladModel has
\* returned, the operator collection holds the operators and the drift that
\* the model stores, whatever the evaluation mode.
C24_CollectionRebuiltAfterFrame ==
    /\ GM_FrameSet => GM_CollectionCurrent
    /\ LM_FrameSet => LM_CollectionCurrent

\* the same, for the models whose evaluation mode is not None
C24_RebuiltUnlessModeNone ==
    /\ GM_FrameSet => GM_CollectionCurrent
    /\ (LM_FrameSet /\ lm.evaluation_mode # ModeNone) => LM_CollectionCurrent

\* a matrix given in the lab basis, in the basis of `frame`
InFrameBasis(frame) == IF HasDiag(frame) THEN <<frame.id>> ELSE <<>>

\* a zero drift of the lab basis, in the basis of `frame`, minus the frame's
\* diagonal times `factor`
DriftInFrame(frame, factor) ==
    [basis |-> InFrameBasis(frame),
     terms |-> IF HasDiag(frame)
               THEN {[sign |-> -1, factor |-> factor, frame |-> frame.id, conj |-> <<>>]}
               ELSE {}]

C30_ModeNamesCollection ==
    LM_IsConstructed =>
        /\ lm.vectorized_operators = "True" <=> lm.evaluation_mode = "dense_vectorized"
        /\ lm.vectorized_operators \in {"True", "False"}
        /\ ~IsNone(lm.operator_collection)
        /\ lm.operator_collection.kind =
              (IF lm.evaluation_mode = "dense" THEN "DenseLindbladCollection"
               ELSE IF lm.evaluation_mode = "sparse" THEN "SparseLindbladCollection"
               ELSE IF lm.evaluation_mode = "dense_vectorized"
               THEN "DenseVectorizedLindbladCollection"
               ELSE "none")

\* the same, while the evaluation mode is not None
C30_UnlessModeNone ==
    (LM_IsConstructed /\ lm.evaluation_mode # ModeNone) => C30_ModeNamesCollection

-----------------------------------------------------------------------------
(* Claims about the signals handed to solve *)

\* a Schedule or a ScheduleBlock
IsPulse(sigs) == sigs.kind \in {"Schedule", "ScheduleBlock"}

\* one of the specifications of the argument is of the kind `kind`
Holds(signals, kind) == \E i \in 1..Len(signals.elems) : signals.elems[i].kind = kind

\* the pre-processing loop of solve has raised
PreprocessingRaised ==
    outcome \in {Raised("solve", "TypeError"), Raised("solve", "AttributeError")}

\* C26: a solve of a Solver with a schedule converter, called with signals
\* that hold a Schedule or a ScheduleBlock, gets past the pre-processing
\* loop, and no item it goes on with holds a Schedule or a ScheduleBlock.
C26_SchedulesConverted ==
    [][\A signals \in PulseSignalsArgs, cj \in BOOLEAN :
          (/\ schedule_converter
           /\ Holds(signals, "Schedule") \/ Holds(signals, "ScheduleBlock")
           /\ SolvePulse(signals, cj))
              => /\ ~PreprocessingRaised'
                 /\ \A i \in 1..Len(queue') : ~IsPulse(queue'[i].sigs)]_vars

\* the same, for signals that hold no ScheduleBlock
C26_ScheduleItemsConverted ==
    [][\A signals \in PulseSignalsArgs, cj \in BOOLEAN :
          (/\ schedule_converter
           /\ Holds(signals, "Schedule") /\ ~Holds(signals, "ScheduleBlock")
           /\ SolvePulse(signals, cj))
              => /\ ~PreprocessingRaised'
                 /\ \A i \in 1..Len(queue') : ~IsPulse(queue'[i].sigs)]_vars

\* C27: a solve called with signals left at None raises nothing in the
\* pre-processing loop and reaches the collaborator with the signals of the
\* model set to None.
C27_NoSignalsReachIntegration ==
    [][\A cj \in BOOLEAN :
          Solve(Single(TSpan(1)), Single(UserState("Matrix", 1)), Single(NoneV), cj, "ValueError", TRUE)
              => /\ ~PreprocessingRaised'
                 /\ pc' = "solve_lmde"
                 /\ IsNone(model_signals')]_vars

-----------------------------------------------------------------------------
(* Claims about the types of the returned states *)

\* the ``yf`` type column of the table in the documentation of solve: the
\* class of the returned states for an initial state of class kind and a model
\* of class class ("None" is a raw array)
YfType(kind, class) ==
    CASE kind = "Array" -> "None"
      [] kind = "Operator" -> "Operator"
      [] kind = "SuperOp" -> "SuperOp"
      [] kind \in {"Statevector", "DensityMatrix"} ->
            IF class = "LindbladModel" THEN "DensityMatrix" ELSE kind

\* the i-th result of the solve that returned has the type of the table when
\* convert_results, and is a raw array otherwise
TypedByTable(i) ==
    results[i].states.wrapped.cls
        = IF convert_results THEN YfType(results[i].call.y0.kind, model_class) ELSE "None"

\* C21: when solve has returned, the states of every result have the type the
\* documented table gives for the class of that result's initial state and the
\* class of the model when convert_results is True, and are raw arrays when it
\* is False.
C21_StatesTypedByTable ==
    outcome = Returned("solve") => \A i \in 1..Len(results) : TypedByTable(i)

\* the same for a solve of one initial state that is not in a list
C21_SingleStateTypedByTable ==
    (outcome = Returned("solve") /\ return_value = "single") => TypedByTable(1)

\* with convert_results False every returned result is a raw array
C21_UnconvertedAreRaw ==
    (outcome = Returned("solve") /\ ~convert_results)
        => \A i \in 1..Len(results) : results[i].states.wrapped.cls = "None"

-----------------------------------------------------------------------------
(* Perturbation results and multisets *)

\* the indices that labels and multisets are made of, and the largest
\* multiplicity of an index in a multiset handed to submultiset_filter
Indices == {0, 1}
MaxCount == 2

\* Multiset: the multiplicity of every index
MultisetOf(counts) == [kind |-> "Multiset", counts |-> counts]

\* the number of times x occurs in the list elems
CountOf(elems, x) == Cardinality({i \in 1..Len(elems) : elems[i] = x})

\* to_Multiset: a Multiset is returned as it is, a list is counted
to_Multiset(label) ==
    IF label.kind = "Multiset" THEN label
    ELSE MultisetOf([x \in Indices |-> CountOf(label.elems, x)])

\* "symmetric" in expansion_method
IsSymmetric(expansion_method) ==
    expansion_method \in {"symmetric_dyson", "symmetric_magnus"}

\* the labels as lists and as Multisets
ListLabels == {ListOf(<<x>>) : x \in Indices} \cup {ListOf(<<x, y>>) : x, y \in Indices}
MultisetLabels == {to_Multiset(l) : l \in ListLabels}

\* the expansion_labels of an instance: lists, or Multisets
LabelLists(labels) == {<<a>> : a \in labels} \cup {<<a, b>> : a, b \in labels}

\* the i-th entry of expansion_terms, and the Array made of an entry
Term(i) == [kind |-> "term", id |-> i]
ArrayOfTerm(term) == [kind |-> "Array", of |-> term]

PerturbationResults(expansion_method, expansion_labels) ==
    [kind |-> "PerturbationResults", expansion_method |-> expansion_method,
     expansion_labels |-> expansion_labels,
     expansion_terms |-> [i \in 1..Len(expansion_labels) |-> Term(i)]]

PerturbationResultsInstances ==
    {PerturbationResults(m, l) :
        m \in {"dyson", "symmetric_dyson", "symmetric_magnus"},
        l \in LabelLists(ListLabels) \cup LabelLists(MultisetLabels)}

\* what comparing a Multiset with a list does: they are unequal, or the
\* comparison raises (the class Multiset is not in the sources)
MixedComparisons == {"unequal", "AttributeError"}

\* `label in expansion_labels` and expansion_labels.index(label): the entries
\* are compared with label in order from the i-th; the index of the first that
\* is equal, 0 when there is none, -1 when a comparison raises before it
RECURSIVE LabelIndex(_, _, _, _)
LabelIndex(expansion_labels, label, mixed, i) ==
    IF i > Len(expansion_labels) THEN 0
    ELSE IF expansion_labels[i].kind # label.kind
    THEN (IF mixed = "AttributeError" THEN 0 - 1
          ELSE LabelIndex(expansion_labels, label, mixed, i + 1))
    ELSE IF expansion_labels[i] = label THEN i
    ELSE LabelIndex(expansion_labels, label, mixed, i + 1)

\* PerturbationResults.__getitem__: [status, exc, value]
PR_getitem(self, label, mixed) ==
    LET Found(idx) ==
            IF idx > 0
            THEN [status |-> "returned", exc |-> "none",
                  value |-> ArrayOfTerm(self.expansion_terms[idx])]
            ELSE [status |-> "raised",
                  exc |-> IF idx = 0 THEN "QiskitError" ELSE "AttributeError",
                  value |-> NoneV]
    IN  Found(LabelIndex(self.expansion_labels,
                         IF IsSymmetric(self.expansion_method) THEN to_Multiset(label)
                         ELSE label,
                         mixed, 1))

\* perturbation_results[label]
PR_Subscript ==
    /\ pr # Unconstructed
    /\ \E label \in ListLabels \cup MultisetLabels, mixed \in MixedComparisons :
          \E r \in {PR_getitem(pr, label, mixed)} :
             pr_last' = [op |-> "__getitem__", status |-> r.status, exc |-> r.exc,
                         value |-> r.value, label |-> label]
    /\ UNCHANGED <<pr, msf>>
    /\ UNCHANGED <<solverVars, generatorVars, lindbladVars, copyVars>>

\* a PerturbationResults instance that is subscripted
PerturbationInitial ==
    /\ SolverUnused /\ GeneratorInit /\ LindbladInit /\ CopyInit
    /\ pr \in PerturbationResultsInstances
    /\ pr_last = [op |-> "none"]
    /\ msf = NoFilterCall

PerturbationNext == PR_Subscript

PerturbationSpec == PerturbationInitial /\ [][PerturbationNext]_vars

\* the multisets over Indices with multiplicities up to MaxCount
Multisets == {MultisetOf(c) : c \in [Indices -> 0..MaxCount]}

\* the lists of at most two multisets
MultisetLists == {<<>>} \cup {<<a>> : a \in Multisets} \cup {<<a, b>> : a, b \in Multisets}

\* candidate is a submultiset of multiset, counting multiplicities
issubset_SupportOnly(candidate, multiset) ==
    \A x \in Indices : candidate.counts[x] > 0 => multiset.counts[x] > 0

issubset(candidate, multiset) ==
    \A x \in Indices : candidate.counts[x] <= multiset.counts[x]

\* the inner loop of submultiset_filter: the multisets are tried in order until
\* the candidate is a submultiset of one
RECURSIVE SubmultisetOfOne(_, _)
SubmultisetOfOne(candidate, multiset_list) ==
    IF multiset_list = <<>> THEN FALSE
    ELSE IF issubset(candidate, Head(multiset_list)) THEN TRUE
    ELSE SubmultisetOfOne(candidate, Tail(multiset_list))

\* submultiset_filter: the candidates are tried in order, and appended to the
\* result when the inner loop finds a multiset
RECURSIVE submultiset_filter(_, _)
submultiset_filter(multiset_candidates, multiset_list) ==
    IF multiset_candidates = <<>> THEN <<>>
    ELSE (IF SubmultisetOfOne(Head(multiset_candidates), multiset_list)
          THEN <<Head(multiset_candidates)>>
          ELSE <<>>)
         \o submultiset_filter(Tail(multiset_candidates), multiset_list)

\* submultiset_filter(candidates, multiset_list), called once on its arguments
SubmultisetFilterCall ==
    /\ msf.status = "none"
    /\ msf' = [msf EXCEPT !.status = "returned",
                          !.result = submultiset_filter(msf.candidates, msf.multiset_list)]
    /\ UNCHANGED <<pr, pr_last>>
    /\ UNCHANGED <<solverVars, generatorVars, lindbladVars, copyVars>>

\* the arguments of a call of submultiset_filter
FilterInitial ==
    /\ SolverUnused /\ GeneratorInit /\ LindbladInit /\ CopyInit
    /\ pr = Unconstructed
    /\ pr_last = [op |-> "none"]
    /\ \E c \in MultisetLists, l \in MultisetLists :
          msf = [status |-> "none", result |-> <<>>, candidates |-> c, multiset_list |-> l]

FilterNext == SubmultisetFilterCall

FilterSpec == FilterInitial /\ [][FilterNext]_vars

-----------------------------------------------------------------------------
(* Claims about perturbation results and multisets *)

\* the indices at which label is stored in the expansion_labels of pr
StoredAt(label) ==
    {i \in 1..Len(pr.expansion_labels) :
        /\ pr.expansion_labels[i].kind = label.kind
        /\ pr.expansion_labels[i] = label}

\* the last subscript returned the entry of expansion_terms at an index at
\* which its label is stored
ReturnedStoredEntry ==
    /\ pr_last.status = "returned"
    /\ \E i \in StoredAt(pr_last.label) :
          pr_last.value = ArrayOfTerm(pr.expansion_terms[i])

\* C22: for every instance, whatever its expansion_method and whether its
\* labels are lists or Multisets, a subscript with a label that is stored in
\* expansion_labels returns the entry of expansion_terms at the index at which
\* that label is stored.
C22_SubscriptReturnsStoredEntry ==
    (pr_last.op = "__getitem__" /\ StoredAt(pr_last.label) # {}) => ReturnedStoredEntry

\* the same for the instances whose labels are Multisets when the
\* expansion_method is a symmetric one
C22_UnlessSymmetricWithLists ==
    (/\ pr_last.op = "__getitem__"
     /\ StoredAt(pr_last.label) # {}
     /\ ~(IsSymmetric(pr.expansion_method) /\ pr.expansion_labels[1].kind = "list"))
        => ReturnedStoredEntry

\* the positions of the candidates that are a submultiset of at least one
\* multiset of the list
Kept ==
    {i \in 1..Len(msf.candidates) :
        \E j \in 1..Len(msf.multiset_list) :
           \A x \in Indices : msf.candidates[i].counts[x] <= msf.multiset_list[j].counts[x]}

\* C23: submultiset_filter returns exactly the candidates that are a
\* submultiset, counting multiplicities, of at least one multiset of
\* multiset_list, in the order they have among the candidates: the k-th entry
\* of the result is the candidate at the k-th smallest kept position.
C23_FilterKeepsSubmultisetsInOrder ==
    msf.status = "returned" =>
        /\ Len(msf.result) = Cardinality(Kept)
        /\ \A i \in Kept :
              msf.result[Cardinality({m \in Kept : m <= i})] = msf.candidates[i]

\* a call that keeps the second candidate and drops the first, whose indices
\* all occur in a multiset of the list but more often than in any of them
C23_Witness ==
    /\ msf.status = "returned"
    /\ Len(msf.candidates) = 2
    /\ Kept = {2}
    /\ msf.result = <<msf.candidates[2]>>
    /\ \E j \in 1..Len(msf.multiset_list) :
          issubset_SupportOnly(msf.candidates[1], msf.multiset_list[j])

====
